---- MODULE Spec2Model ----
(***************************************************************************)
(* A model of go-epub-grep's search engine (package epubproc):             *)
(*   - fileSearchImpl.Search: the producer / worker pipeline built on a    *)
(*     conc ContextPool (WithContext, WithCancelOnError);                  *)
(*   - regexCache.get: the process-wide compiled-pattern cache.            *)
(***************************************************************************)
EXTENDS Integers, Sequences, FiniteSets, TLC

(***************************************************************************)
(* Bounds of the model.                                                    *)
(***************************************************************************)
NumArchives == 2
MaxThreads == 2
NumCallers == 2
MaxCalls == 5
MaxCacheSize == 2
NumScanners == 2
MaxScans == 3
MaxContext == 2

Paths == 1..NumArchives
Workers == 1..MaxThreads

(***************************************************************************)
(* Strings: a string is the sequence of its characters.                    *)
(***************************************************************************)
Whitespace == {" ", "\n", "\r", "\t"}

Least(S) == CHOOSE x \in S : \A y \in S : x <= y

Greatest(S) == CHOOSE x \in S : \A y \in S : x >= y

max(x, y) == IF x >= y THEN x ELSE y

min(x, y) == IF x <= y THEN x ELSE y

\* strings.TrimSpace
TrimSpace(s) ==
    LET keep == { i \in 1..Len(s) : s[i] \notin Whitespace }
    IN IF keep = {} THEN <<>> ELSE SubSeq(s, Least(keep), Greatest(keep))

RECURSIVE Join(_, _)
\* strings.Join
Join(elems, sep) ==
    IF Len(elems) = 0 THEN <<>>
    ELSE IF Len(elems) = 1 THEN elems[1]
    ELSE elems[1] \o sep \o Join(Tail(elems), sep)

RECURSIVE Fields(_)
\* strings.Fields
Fields(s) ==
    IF Len(s) = 0 THEN <<>>
    ELSE IF s[1] \in Whitespace THEN Fields(Tail(s))
    ELSE LET stops == { i \in 1..Len(s) : s[i] \in Whitespace }
             e == IF stops = {} THEN Len(s) + 1 ELSE Least(stops)
         IN << SubSeq(s, 1, e - 1) >> \o Fields(SubSeq(s, e, Len(s)))

\* bufio.ScanLines drops one trailing carriage return of a line.
dropCR(line) ==
    IF Len(line) > 0 /\ line[Len(line)] = "\r"
       THEN SubSeq(line, 1, Len(line) - 1)
    ELSE line

\* bufio.ScanLines on the unread data (not empty) of a reader that has
\* nothing more to give: the next line, and the data after it.
ScanLines(data) ==
    LET nl == { i \in 1..Len(data) : data[i] = "\n" }
    IN IF nl = {} THEN [token |-> dropCR(data), rest |-> <<>>]
       ELSE [token |-> dropCR(SubSeq(data, 1, Least(nl) - 1)),
             rest |-> SubSeq(data, Least(nl) + 1, Len(data))]

\* pattern.MatchString for the patterns of the model: "a", and "(?i)a".
MatchString(pattern, line) ==
    \E i \in 1..Len(line) : line[i] = "a" \/ (pattern = "(?i)a" /\ line[i] = "A")

Upper ==
    << "A", "B", "C", "D", "E", "F", "G", "H", "I", "J", "K", "L", "M",
       "N", "O", "P", "Q", "R", "S", "T", "U", "V", "W", "X", "Y", "Z" >>

Lower ==
    << "a", "b", "c", "d", "e", "f", "g", "h", "i", "j", "k", "l", "m",
       "n", "o", "p", "q", "r", "s", "t", "u", "v", "w", "x", "y", "z" >>

LowerChar(c) ==
    IF \E i \in 1..Len(Upper) : Upper[i] = c
       THEN Lower[CHOOSE i \in 1..Len(Upper) : Upper[i] = c]
    ELSE c

\* strings.ToLower
ToLowerString(s) == [i \in 1..Len(s) |-> LowerChar(s[i])]

\* strings.HasSuffix
HasSuffix(s, suffix) ==
    /\ Len(s) >= Len(suffix)
    /\ SubSeq(s, Len(s) - Len(suffix) + 1, Len(s)) = suffix

\* strings.Contains
Contains(s, substr) ==
    \E i \in 0..(Len(s) - Len(substr)) : SubSeq(s, i + 1, i + Len(substr)) = substr

(***************************************************************************)
(* Patterns.  A pattern is a string; QuoteMeta escapes the one             *)
(* metacharacter of the universe, and "[x" is the regexp that does not     *)
(* compile.                                                                *)
(***************************************************************************)
QuoteMeta(v) == IF v = "[x" THEN "\\[x" ELSE v

IgnoreCasePrefix(p) == IF p = "a" THEN "(?i)a" ELSE "(?i)\\[x"

Compiles(p) == p # "[x"

(***************************************************************************)
(* SearchRequest.Query: Regex and Text are pointers (isNil, or a record).   *)
(***************************************************************************)
NilRegex == [isNil |-> TRUE, Pattern |-> ""]

NilText == [isNil |-> TRUE, Value |-> "", IgnoreCase |-> FALSE]

RegexOf(p) == [isNil |-> FALSE, Pattern |-> p]

TextOf(v, ic) == [isNil |-> FALSE, Value |-> v, IgnoreCase |-> ic]

Queries ==
    { [IsRegex |-> TRUE,  Regex |-> NilRegex, Text |-> TextOf("a", FALSE)],
      [IsRegex |-> FALSE, Regex |-> RegexOf("a"), Text |-> NilText],
      [IsRegex |-> TRUE,  Regex |-> RegexOf("[x"), Text |-> NilText],
      [IsRegex |-> TRUE,  Regex |-> RegexOf("a"), Text |-> NilText],
      [IsRegex |-> FALSE, Regex |-> NilRegex, Text |-> TextOf("[x", TRUE)] }

(***************************************************************************)
(* The items of the walk: files and directories, by name.  An archive      *)
(* either opens as a ZIP or does not; its entries                          *)
(* carry the matches a scan of the entry yields (mt: the matching lines).  *)
(* An html entry with long = TRUE has more than 100 tokens, so that        *)
(* scanHTMLFile polls the context again while tokenizing it.               *)
(***************************************************************************)
\* []Match: nil, or a slice (possibly empty).
NilMatches == [isNil |-> TRUE, seq |-> <<>>]

EmptyMatches == [isNil |-> FALSE, seq |-> <<>>]

NoMeta == [Authors |-> <<>>, Series |-> "", Title |-> ""]

Entry(t, ml, lg) == [type |-> t, mt |-> ml, long |-> lg]

ArchiveKinds ==
    << [name |-> << "a", ".", "e", "p", "u", "b" >>, isDir |-> FALSE,
        opens |-> TRUE, metaOK |-> TRUE,
        meta |-> [Authors |-> <<"Doe">>, Series |-> "", Title |-> "T1"],
        entries |-> << Entry("skip", <<>>, FALSE), Entry("text", <<1>>, FALSE) >>],
       [name |-> << "b", ".", "E", "P", "U", "B" >>, isDir |-> FALSE,
        opens |-> TRUE, metaOK |-> TRUE,
        meta |-> [Authors |-> <<"smith", "doe">>, Series |-> "S", Title |-> "T2"],
        entries |-> << Entry("html", <<1, 2>>, TRUE), Entry("text", <<3>>, FALSE) >>],
       [name |-> << "c", ".", "e", "p", "u", "b" >>, isDir |-> FALSE,
        opens |-> TRUE, metaOK |-> TRUE,
        meta |-> [Authors |-> <<"smith">>, Series |-> "", Title |-> "T4"],
        entries |-> << Entry("html", <<>>, FALSE), Entry("other", <<>>, FALSE) >>],
       [name |-> << "d", ".", "e", "p", "u", "b" >>, isDir |-> FALSE,
        opens |-> FALSE, metaOK |-> FALSE, meta |-> NoMeta, entries |-> <<>>],
       [name |-> << "e", ".", "E", "p", "u", "b" >>, isDir |-> FALSE,
        opens |-> TRUE, metaOK |-> FALSE, meta |-> NoMeta,
        entries |-> << Entry("html", <<2>>, FALSE) >>],
       [name |-> << "f", ".", "e", "p", "u", "b" >>, isDir |-> FALSE,
        opens |-> TRUE, metaOK |-> TRUE,
        meta |-> [Authors |-> <<"smith">>, Series |-> "", Title |-> "T6"],
        entries |-> << Entry("text", <<1, 4>>, FALSE), Entry("html", <<5>>, FALSE) >>],
       [name |-> << "g", ".", "e", "p", "u", "b" >>, isDir |-> TRUE,
        opens |-> FALSE, metaOK |-> FALSE, meta |-> NoMeta, entries |-> <<>>],
       [name |-> << "h", ".", "e", "p", "u", "b", ".", "t", "x", "t" >>, isDir |-> FALSE,
        opens |-> TRUE, metaOK |-> TRUE,
        meta |-> [Authors |-> <<"Doe">>, Series |-> "", Title |-> "T8"],
        entries |-> << Entry("text", <<1>>, FALSE) >>] >>

NumKinds == Len(ArchiveKinds)

\* The directories the model is run against: NumArchives archives each.
Directory(o) == [i \in Paths |-> ArchiveKinds[((i + o) % NumKinds) + 1]]

Directories == { Directory(o) : o \in 0..(NumKinds - 1) }

(***************************************************************************)
(* Metadata filters (strings.EqualFold over the strings of the model).     *)
(***************************************************************************)
ToLower(x) ==
    CASE x = "Doe" -> "doe"
      [] x = "DOE" -> "doe"
      [] x = "Smith" -> "smith"
      [] x = "Doe Smith" -> "doe smith"
      [] x = "SAGA" -> "saga"
      [] x = "Saga" -> "saga"
      [] x = "Dune" -> "dune"
      [] OTHER -> x

EqualFold(x, y) == ToLower(x) = ToLower(y)

NilFilters ==
    [isNil |-> TRUE, AuthorEquals |-> "", SeriesEquals |-> "", TitleEquals |-> "",
     FilesIn |-> {}]

FiltersOf(a, sr, t, fi) ==
    [isNil |-> FALSE, AuthorEquals |-> a, SeriesEquals |-> sr, TitleEquals |-> t,
     FilesIn |-> fi]

matchesMetadataFiltersMutant(metadata, filters) ==
    /\ (filters.AuthorEquals # "" =>
           \A i \in 1..Len(metadata.Authors) :
               EqualFold(metadata.Authors[i], filters.AuthorEquals))
    /\ (filters.SeriesEquals # "" => EqualFold(metadata.Series, filters.SeriesEquals))

matchesMetadataFilters(metadata, filters) ==
    /\ (filters.AuthorEquals # "" =>
           \E i \in 1..Len(metadata.Authors) :
               EqualFold(metadata.Authors[i], filters.AuthorEquals))
    /\ (filters.SeriesEquals # "" => EqualFold(metadata.Series, filters.SeriesEquals))
    /\ (filters.TitleEquals # "" => EqualFold(metadata.Title, filters.TitleEquals))

\* The (extractMetadata, Filters) pairs the model is run with.
Configurations ==
    { << FALSE, NilFilters >>,
      << TRUE, FiltersOf("DOE", "", "", {}) >>,
      << FALSE, FiltersOf("DOE", "", "", {}) >>,
      << TRUE, FiltersOf("", "", "", Paths \ {2}) >> }

(***************************************************************************)
(* Go maps: a missing key reads as the zero value.                         *)
(***************************************************************************)
EmptyMap == [q \in {} |-> 0]

HasKey(m, k) == k \in DOMAIN m

Put(m, k, v) == [q \in (DOMAIN m) \cup {k} |-> IF q = k THEN v ELSE m[q]]

Del(m, k) == [q \in (DOMAIN m) \ {k} |-> m[q]]

IncrMutant(m, k) == IF HasKey(m, k) THEN Put(m, k, m[k]) ELSE Put(m, k, 1)

\* rc.accesses[pattern]++
Incr(m, k) == Put(m, k, (IF HasKey(m, k) THEN m[k] ELSE 0) + 1)

(***************************************************************************)
(* regexCache: cache maps a pattern to its compiled matcher (an identity:  *)
(* the number of the regexp.Compile call that made it), accesses maps a    *)
(* pattern to its access count.                                            *)
(***************************************************************************)
patternCacheMaxSize == 128

newRegexCache(maxSize) ==
    [cache |-> EmptyMap, accesses |-> EmptyMap, maxSize |-> maxSize, compiled |-> 0]

\* The eviction loop: the keys of accesses the loop can end on.  It keeps the
\* first key it meets whose count is below every count met before, and a Go
\* map is ranged over in no fixed order: any key of minimal count.  With no
\* key at all lruPattern stays "".
Victims(acc) ==
    IF DOMAIN acc = {} THEN {""}
    ELSE { q \in DOMAIN acc : \A r \in DOMAIN acc : acc[q] <= acc[r] }

\* The hit path's second critical section.
CacheTouch(c, pattern) == [c EXCEPT !.accesses = Incr(c.accesses, pattern)]

\* The miss path after a successful compile: evict at capacity, then insert.
CacheInsert(c, pattern, victim) ==
    LET full == Cardinality(DOMAIN c.cache) >= c.maxSize
        cache1 == IF full THEN Del(c.cache, victim) ELSE c.cache
        acc1 == IF full THEN Del(c.accesses, victim) ELSE c.accesses
    IN [c EXCEPT !.cache = Put(cache1, pattern, c.compiled + 1),
                 !.accesses = Put(acc1, pattern, 1),
                 !.compiled = c.compiled + 1]

(***************************************************************************)
(* State.                                                                  *)
(***************************************************************************)
VARIABLES
    \* fileSearchImpl and the call's arguments
    dir,              \* the archives under epubDir, in walk order
    walkErrAt,        \* 0, or the walk position at which WalkDir reports an error:
                      \* 1 (the root cannot be read) or 2 (after the first archive)
    configuredThreads,   \* the maxThreads argument of NewFileSearch
    maxThreads,       \* fileSearchImpl.maxThreads
    extractMetadata,
    request,          \* [Query, Filters]
    ctx0,             \* the caller's context when Search is called
    \* the ContextPool
    ctxErr,           \* ctx.Err() of the pool's context: "none" while not done
    errs,             \* the pool's collected errors, in the order added
    closed,           \* close(paths) has run
    \* the goroutines
    mpc, result,      \* the Search call itself: <<>> is a nil error
    ppc, ppos, perr,  \* the producer
    wpc, wpath, wk, wacc, wpoll, werr,   \* the workers
    \* history
    delivered,        \* the handler's invocations, in order: the result passed,
                      \* what the handler returned, the invoking worker, and
                      \* whether the pool's context was done by then
    abandoned,        \* archives given up because the context was done
    signalled,        \* the caller's signal fired while Search was running
    \* regexCache and its callers
    rc,               \* [cache, accesses, maxSize, compiled]
    cpc, cpat, cre,   \* each caller of get: position, pattern, matcher read
    ncalls,           \* get calls begun
    returned,         \* pattern -> the matchers completed get calls returned
    completed,        \* pattern -> number of completed successful get calls
    compiles,         \* pattern -> number of regexp.Compile calls on it
    evicted           \* the patterns that were ever evicted

searchVars ==
    << dir, walkErrAt, configuredThreads, maxThreads, extractMetadata, request, ctx0,
       ctxErr, errs,
       closed, mpc, result, ppc, ppos, perr, wpc, wpath, wk, wacc, wpoll, werr,
       delivered, abandoned, signalled >>

callerVars == << cpc, cpat, cre, ncalls, returned, completed, compiles, evicted >>

VARIABLES
    \* scanTextFile / scanHTMLFile, called from any number of goroutines
    scan,             \* each scanning goroutine: position, arguments, locals, result
    scannerPool,      \* the idle pooledScanner values of scannerPool
    tokenizerPool,    \* the idle pooledTokenizer values of tokenizerPool
    nscans,           \* scans begun
    outs              \* the (arguments, result) pairs of the completed scans

scanVars == << scan, scannerPool, tokenizerPool, nscans, outs >>

VARIABLES
    mf,               \* a call of matchesMetadataFilters: arguments and result
    cls               \* an entry of r.File in grepInEpub's loop: its name, and
                      \* what the loop decided for it

pureVars == << mf, cls >>

VARIABLES
    pd,               \* a call of metadataExtractorImpl.ProcessDirectory
    pf,               \* a call of metadataExtractorImpl.ProcessFile: the
                      \* archive and what is returned
    cli,              \* a run of the epub-search command
    ids               \* ProcessFile's extraction of the identifiers from a
                      \* parsed manifest: the elements, the position, the map

toolVars == << pd, pf, cli, ids >>

utilVars == << scanVars, pureVars, toolVars >>

vars == << searchVars, rc, callerVars, utilVars >>

Callers == 1..NumCallers

CachePatterns == {"a", "b", "c", "[x"}

(***************************************************************************)
(* Search: validation and pattern compilation (the caller's goroutine).    *)
(***************************************************************************)
SearchPattern(q) ==
    IF q.IsRegex THEN q.Regex.Pattern
    ELSE IF q.Text.IgnoreCase THEN IgnoreCasePrefix(QuoteMeta(q.Text.Value))
    ELSE QuoteMeta(q.Text.Value)

QueryErrorMutant(q) ==
    IF q.IsRegex /\ q.Regex.isNil THEN "regex configuration is required"
    ELSE "none"

QueryError(q) ==
    IF q.IsRegex /\ q.Regex.isNil THEN "regex configuration is required"
    ELSE IF ~q.IsRegex /\ q.Text.isNil THEN "text configuration is required"
    ELSE "none"

StartedMutant(w) == TRUE

\* for i := 0; i < s.maxThreads; i++ { p.Go(...) }
Started(w) == w <= maxThreads

\* runtime.NumCPU() on the hosts the model is run on.
HostCPUs == 1..MaxThreads

\* NewFileSearch: a count <= 0 is replaced by runtime.NumCPU().
NewFileSearch(threads, numCPU) == IF threads <= 0 THEN numCPU ELSE threads

\* A Search call about to be made on NewFileSearch(epubDir, threads, ...),
\* threads being one of configured.
SearchInitWith(configured) ==
    /\ dir \in Directories
    /\ walkErrAt \in {0, 1, 2}
    /\ configuredThreads \in configured
    /\ \E numCPU \in HostCPUs :
          maxThreads = NewFileSearch(configuredThreads, numCPU)
    /\ \E cf \in Configurations :
          /\ extractMetadata = cf[1]
          /\ request \in [Query : Queries, Filters : {cf[2]}]
    /\ ctx0 \in {"none", "Canceled", "DeadlineExceeded"}
    /\ ctxErr = ctx0
    /\ errs = <<>>
    /\ closed = FALSE
    /\ mpc = "start"
    /\ result = <<>>
    /\ ppc = "off" /\ ppos = 1 /\ perr = "none"
    /\ wpc = [w \in Workers |-> "off"]
    /\ wpath = [w \in Workers |-> 0]
    /\ wk = [w \in Workers |-> 0]
    /\ wacc = [w \in Workers |-> NilMatches]
    /\ wpoll = [w \in Workers |-> 0]
    /\ werr = [w \in Workers |-> "none"]
    /\ delivered = <<>>
    /\ abandoned = {}
    /\ signalled = FALSE

SearchInit == SearchInitWith(1..MaxThreads)

searchRest ==
    << dir, walkErrAt, configuredThreads, maxThreads, extractMetadata, request, ctx0 >>

workerVars == << wpc, wpath, wk, wacc, wpoll, werr >>

\* Search up to p.Wait(): the query checks, patternCache.get, and the start of
\* the producer and of maxThreads workers.
SearchStart ==
    /\ mpc = "start"
    /\ LET q == request.Query
           pattern == SearchPattern(q)
           fails == QueryError(q) # "none" \/ (~HasKey(rc.cache, pattern) /\ ~Compiles(pattern))
       IN /\ IF QueryError(q) # "none"
                THEN /\ result' = << QueryError(q) >>
                     /\ rc' = rc
             ELSE IF HasKey(rc.cache, pattern)
                THEN /\ result' = result
                     /\ rc' = CacheTouch(rc, pattern)
             ELSE IF ~Compiles(pattern)
                THEN /\ result' = << "invalid pattern" >>
                     /\ rc' = rc
             ELSE /\ result' = result
                  /\ \E victim \in Victims(rc.accesses) : rc' = CacheInsert(rc, pattern, victim)
          /\ mpc' = IF fails THEN "done" ELSE "run"
          /\ ppc' = IF fails THEN ppc ELSE "walk"
          /\ wpc' = IF fails THEN wpc
                    ELSE [w \in Workers |-> IF Started(w) THEN "recv" ELSE "off"]
    /\ UNCHANGED << searchRest, ctxErr, errs, closed, ppos, perr, wpath, wk, wacc,
                    wpoll, werr, delivered, abandoned, signalled, callerVars, utilVars >>

\* A goroutine of the pool returns the error e: the pool records it and, the
\* pool being WithCancelOnError, cancels its context.
PoolFail(e) ==
    /\ errs' = Append(errs, e)
    /\ ctxErr' = IF ctxErr = "none" THEN "Canceled" ELSE ctxErr

(***************************************************************************)
(* Search: the producer goroutine (filepath.WalkDir over epubDir).         *)
(***************************************************************************)
\* !d.IsDir() && strings.HasSuffix(strings.ToLower(d.Name()), ".epub")
IsEpubFile(path) ==
    /\ ~dir[path].isDir
    /\ HasSuffix(ToLowerString(dir[path].name), << ".", "e", "p", "u", "b" >>)

ListedMutant(path) == TRUE

\* The FilesIn filter of the walk callback.
Listed(path) ==
    ~(~request.Filters.isNil /\ request.Filters.FilesIn # {})
        \/ path \in request.Filters.FilesIn

ProducerWalkErrMutant ==
    /\ ppc = "walk" /\ walkErrAt = ppos
    /\ perr' = "walk error" /\ ppos' = ppos + 1
    /\ UNCHANGED << searchRest, ctxErr, errs, closed, mpc, result, ppc, workerVars,
                    delivered, abandoned, signalled, rc, callerVars, utilVars >>

\* The callback is called with an error: it returns it, and paths is closed.
ProducerWalkErr ==
    /\ ppc = "walk" /\ walkErrAt = ppos
    /\ ppc' = "fail" /\ perr' = "walk error" /\ closed' = TRUE
    /\ UNCHANGED << searchRest, ctxErr, errs, mpc, result, ppos, workerVars,
                    delivered, abandoned, signalled, rc, callerVars, utilVars >>

\* A directory, a file that is no .epub, or an archive that is not in
\* FilesIn: the callback returns nil at once.
ProducerSkip ==
    /\ ppc = "walk" /\ walkErrAt # ppos /\ ppos <= NumArchives
    /\ ~(IsEpubFile(ppos) /\ Listed(ppos))
    /\ ppos' = ppos + 1
    /\ UNCHANGED << searchRest, ctxErr, errs, closed, mpc, result, ppc, perr,
                    workerVars, delivered, abandoned, signalled, rc, callerVars, utilVars >>

\* select, case paths <- path: the unbuffered channel hands the path to a
\* worker waiting in its range loop.
ProducerSend(w) ==
    /\ ppc = "walk" /\ walkErrAt # ppos /\ ppos <= NumArchives
    /\ IsEpubFile(ppos) /\ Listed(ppos)
    /\ wpc[w] = "recv"
    /\ wpc' = [wpc EXCEPT ![w] = "check"]
    /\ wpath' = [wpath EXCEPT ![w] = ppos]
    /\ ppos' = ppos + 1
    /\ UNCHANGED << searchRest, ctxErr, errs, closed, mpc, result, ppc, perr,
                    wk, wacc, wpoll, werr, delivered, abandoned, signalled, rc,
                    callerVars, utilVars >>

ProducerCtxDoneMutant == FALSE /\ UNCHANGED vars

\* select, case <-ctx.Done(): the callback returns ctx.Err(), the walk ends
\* and paths is closed.
ProducerCtxDone ==
    /\ ppc = "walk" /\ walkErrAt # ppos /\ ppos <= NumArchives
    /\ IsEpubFile(ppos) /\ Listed(ppos)
    /\ ctxErr # "none"
    /\ ppc' = "fail" /\ perr' = ctxErr /\ closed' = TRUE
    /\ abandoned' = abandoned \cup {ppos}
    /\ UNCHANGED << searchRest, ctxErr, errs, mpc, result, ppos, workerVars,
                    delivered, signalled, rc, callerVars, utilVars >>

\* The walk is over: WalkDir returns nil, paths is closed, the goroutine ends.
ProducerFinish ==
    /\ ppc = "walk" /\ walkErrAt # ppos /\ ppos = NumArchives + 1
    /\ ppc' = "done" /\ closed' = TRUE
    /\ UNCHANGED << searchRest, ctxErr, errs, mpc, result, ppos, perr, workerVars,
                    delivered, abandoned, signalled, rc, callerVars, utilVars >>

\* The producer's function returned an error to the pool.
ProducerReturnErr ==
    /\ ppc = "fail"
    /\ PoolFail(perr)
    /\ ppc' = "done"
    /\ UNCHANGED << searchRest, closed, mpc, result, ppos, perr, workerVars,
                    delivered, abandoned, signalled, rc, callerVars, utilVars >>

(***************************************************************************)
(* Search: a worker goroutine.                                             *)
(***************************************************************************)
GrepMatchesInitMutant == EmptyMatches

\* var matches []Match
GrepMatchesInit == NilMatches

AppendMatchesMutant(acc, fileMatches) ==
    IF fileMatches = <<>> THEN acc
    ELSE [isNil |-> FALSE, seq |-> fileMatches \o acc.seq]

\* matches = append(matches, fileMatches...): appending no element leaves
\* the slice as it is, nil included.
AppendMatches(acc, fileMatches) ==
    IF fileMatches = <<>> THEN acc
    ELSE [isNil |-> FALSE, seq |-> acc.seq \o fileMatches]

EntryMatchesMutant(e, k) ==
    [i \in 1..Len(e.mt) |-> [Line |-> e.mt[Len(e.mt) + 1 - i], FileName |-> 1]]

\* The Match values a completed scan of entry e (the k-th of its archive)
\* yields: one per matching line, in line order, under the entry's name.
EntryMatches(e, k) == [i \in 1..Len(e.mt) |-> [Line |-> e.mt[i], FileName |-> k]]

\* `continue`, or the end of the loop body: back to `range paths`; the next
\* round starts from a fresh match list.
NextPath(w) ==
    /\ wpc' = [wpc EXCEPT ![w] = "recv"]
    /\ wpath' = [wpath EXCEPT ![w] = 0]
    /\ wk' = [wk EXCEPT ![w] = 0]
    /\ wacc' = [wacc EXCEPT ![w] = NilMatches]
    /\ wpoll' = [wpoll EXCEPT ![w] = 0]
    /\ werr' = [werr EXCEPT ![w] = "none"]

\* The worker's function returns e ("none": nil).
WorkerReturn(w, e) ==
    /\ wpc' = [wpc EXCEPT ![w] = IF e = "none" THEN "done" ELSE "fail"]
    /\ werr' = [werr EXCEPT ![w] = e]
    /\ wpath' = [wpath EXCEPT ![w] = 0]
    /\ wk' = [wk EXCEPT ![w] = 0]
    /\ wacc' = [wacc EXCEPT ![w] = NilMatches]
    /\ wpoll' = [wpoll EXCEPT ![w] = 0]

\* range paths on the closed channel: the loop ends, return nil.
WorkerRangeEnd(w) ==
    /\ wpc[w] = "recv" /\ closed
    /\ WorkerReturn(w, "none")
    /\ UNCHANGED << searchRest, ctxErr, errs, closed, mpc, result, ppc, ppos, perr,
                    delivered, abandoned, signalled, rc, callerVars, utilVars >>

\* What the worker returns when it finds the context done at the top of the
\* loop body: nil on context.Canceled, the error otherwise.
CtxDoneReturn(err) == IF err = "Canceled" THEN "none" ELSE err

OpenErrorOutcomeMutant(w) == WorkerReturn(w, "open error")

\* grepInEpub failed to open the archive: the error is logged, `continue`.
OpenErrorOutcome(w) == NextPath(w)

\* ProcessFile failed: the error is logged, `continue`.
MetadataErrorOutcome(w) == NextPath(w)

\* The select at the top of the loop body, then grepInEpub up to the open of
\* the archive.  A cancelled context returns nil, an expired one its error.
WorkerCheck(w) ==
    /\ wpc[w] = "check"
    /\ IF ctxErr # "none"
          THEN /\ WorkerReturn(w, CtxDoneReturn(ctxErr))
               /\ abandoned' = abandoned \cup {wpath[w]}
       ELSE IF ~dir[wpath[w]].opens
          THEN OpenErrorOutcome(w) /\ abandoned' = abandoned
       ELSE /\ wpc' = [wpc EXCEPT ![w] = "grep"]
            /\ wk' = [wk EXCEPT ![w] = 1]
            /\ wacc' = [wacc EXCEPT ![w] = GrepMatchesInit]
            /\ UNCHANGED << wpath, wpoll, werr, abandoned >>
    /\ UNCHANGED << searchRest, ctxErr, errs, closed, mpc, result, ppc, ppos, perr,
                    delivered, signalled, rc, callerVars, utilVars >>

HandlerReturns == {"none", "handler error"}

HandlerErrorOutcomeMutant(w, ret) == NextPath(w)

\* if err := handler(result); err != nil { return err }
HandlerErrorOutcome(w, ret) == WorkerReturn(w, ret)

FiltersApplyMutant == ~request.Filters.isNil

\* if request.Filters != nil && s.extractMetadata
FiltersApply == ~request.Filters.isNil /\ extractMetadata

\* len(matches) > 0: metadata extraction, the metadata filters, the handler.
Deliver(w) ==
    LET a == dir[wpath[w]]
        metadata == IF extractMetadata THEN a.meta ELSE NoMeta
    IN IF extractMetadata /\ ~a.metaOK
          THEN MetadataErrorOutcome(w) /\ delivered' = delivered
       ELSE IF FiltersApply /\ ~matchesMetadataFilters(metadata, request.Filters)
          THEN NextPath(w) /\ delivered' = delivered
       ELSE \E ret \in HandlerReturns :
               /\ delivered' = Append(delivered,
                                   [Path |-> wpath[w], Metadata |-> metadata,
                                    Matches |-> wacc[w].seq, ret |-> ret,
                                    worker |-> w, late |-> ctxErr # "none"])
               /\ IF ret = "none" THEN NextPath(w) ELSE HandlerErrorOutcome(w, ret)

GrepCtxDoneMutant(w) ==
    /\ wacc' = wacc
    /\ werr' = [werr EXCEPT ![w] = ctxErr]

\* grepInEpub's check of the context before it opens an entry, the context
\* being done: return nil, ctx.Err().
GrepCtxDone(w) ==
    /\ wacc' = [wacc EXCEPT ![w] = NilMatches]
    /\ werr' = [werr EXCEPT ![w] = ctxErr]

AnyMatchesMutant(matches) == TRUE

\* if len(matches) > 0 { ... }: an archive without a match goes no further.
AnyMatches(matches) == Len(matches.seq) > 0

\* One round of grepInEpub's loop over r.File, or its return after the last
\* entry and the rest of the worker's loop body.
WorkerGrepEntry(w) ==
    /\ wpc[w] = "grep"
    /\ LET entries == dir[wpath[w]].entries
           e == entries[wk[w]]
       IN IF wk[w] > Len(entries)
             THEN \* return matches, nil
                  /\ IF AnyMatches(wacc[w])
                        THEN Deliver(w)
                     ELSE NextPath(w) /\ delivered' = delivered
                  /\ abandoned' = abandoned
          ELSE IF e.type = "skip"
             THEN /\ wk' = [wk EXCEPT ![w] = wk[w] + 1]
                  /\ UNCHANGED << wpc, wpath, wacc, wpoll, werr, abandoned, delivered >>
          ELSE IF ctxErr # "none"
             THEN /\ GrepCtxDone(w)
                  /\ wpc' = [wpc EXCEPT ![w] = "grepret"]
                  /\ UNCHANGED << wpath, wk, wpoll, abandoned, delivered >>
          ELSE IF e.type = "html"
             THEN /\ wpc' = [wpc EXCEPT ![w] = "html"]
                  /\ wpoll' = [wpoll EXCEPT ![w] = 0]
                  /\ UNCHANGED << wpath, wk, wacc, werr, abandoned, delivered >>
          ELSE \* "text": scanTextFile; any other type is opened and not scanned
               /\ wacc' = [wacc EXCEPT ![w] =
                              IF e.type = "text"
                                 THEN AppendMatches(wacc[w], EntryMatches(e, wk[w]))
                              ELSE wacc[w]]
               /\ wk' = [wk EXCEPT ![w] = wk[w] + 1]
               /\ UNCHANGED << wpc, wpath, wpoll, werr, abandoned, delivered >>
    /\ UNCHANGED << searchRest, ctxErr, errs, closed, mpc, result, ppc, ppos, perr,
                    signalled, rc, callerVars, utilVars >>

\* grepInEpub returned the context's error: `break` on context.Canceled and
\* return nil; any other error is logged, `continue`.
WorkerGrepFailed(w) ==
    /\ wpc[w] = "grepret"
    /\ IF werr[w] = "Canceled" THEN WorkerReturn(w, "none") ELSE NextPath(w)
    /\ abandoned' = abandoned \cup {wpath[w]}
    /\ UNCHANGED << searchRest, ctxErr, errs, closed, mpc, result, ppc, ppos, perr,
                    delivered, signalled, rc, callerVars, utilVars >>

\* scanHTMLFile: a poll of the context (token 0, and token 100 of a long
\* entry).  A done context makes the scan return nil; after the last poll
\* the scan completes with the entry's matches.
WorkerHtmlPoll(w) ==
    /\ wpc[w] = "html"
    /\ LET e == dir[wpath[w]].entries[wk[w]]
       IN IF ctxErr # "none"
             THEN /\ wpc' = [wpc EXCEPT ![w] = "grep"]
                  /\ wk' = [wk EXCEPT ![w] = wk[w] + 1]
                  /\ wpoll' = [wpoll EXCEPT ![w] = 0]
                  /\ abandoned' = abandoned \cup {wpath[w]}
                  /\ UNCHANGED << wpath, wacc, werr >>
          ELSE IF e.long /\ wpoll[w] = 0
             THEN /\ wpoll' = [wpoll EXCEPT ![w] = 1]
                  /\ UNCHANGED << wpc, wpath, wk, wacc, werr, abandoned >>
          ELSE /\ wpc' = [wpc EXCEPT ![w] = "grep"]
               /\ wacc' = [wacc EXCEPT ![w] = AppendMatches(wacc[w], EntryMatches(e, wk[w]))]
               /\ wk' = [wk EXCEPT ![w] = wk[w] + 1]
               /\ wpoll' = [wpoll EXCEPT ![w] = 0]
               /\ UNCHANGED << wpath, werr, abandoned >>
    /\ UNCHANGED << searchRest, ctxErr, errs, closed, mpc, result, ppc, ppos, perr,
                    delivered, signalled, rc, callerVars, utilVars >>

\* The worker's function returned an error to the pool.
WorkerReturnErr(w) ==
    /\ wpc[w] = "fail"
    /\ PoolFail(werr[w])
    /\ wpc' = [wpc EXCEPT ![w] = "done"]
    /\ UNCHANGED << searchRest, closed, mpc, result, ppc, ppos, perr, wpath, wk,
                    wacc, wpoll, werr, delivered, abandoned, signalled, rc, callerVars, utilVars >>

(***************************************************************************)
(* Search: p.Wait(), and the caller's context.                             *)
(***************************************************************************)
AllReturned == ppc = "done" /\ \A w \in Workers : wpc[w] \in {"off", "done"}

\* errors.Join of the collected errors; nil when there is none.
SearchWait ==
    /\ mpc = "run" /\ AllReturned
    /\ mpc' = "done"
    /\ result' = errs
    /\ UNCHANGED << searchRest, ctxErr, errs, closed, ppc, ppos, perr, workerVars,
                    delivered, abandoned, signalled, rc, callerVars, utilVars >>

\* The caller cancels its context, or its deadline passes, during the run.
CallerSignal(e) ==
    /\ mpc = "run" /\ ~AllReturned
    /\ ctx0 = "none" /\ ctxErr = "none"
    /\ ctxErr' = e
    /\ signalled' = TRUE
    /\ UNCHANGED << searchRest, errs, closed, mpc, result, ppc, ppos, perr,
                    workerVars, delivered, abandoned, rc, callerVars, utilVars >>

(***************************************************************************)
(* regexCache.get, called from any number of goroutines.  Each critical    *)
(* section of get is one step.                                             *)
(***************************************************************************)
CallersIdle ==
    /\ cpc = [t \in Callers |-> "idle"]
    /\ cpat = [t \in Callers |-> ""]
    /\ cre = [t \in Callers |-> 0]
    /\ ncalls = 0
    /\ returned = [q \in CachePatterns |-> {}]
    /\ completed = [q \in CachePatterns |-> 0]
    /\ compiles = [q \in CachePatterns |-> 0]
    /\ evicted = {}

\* get(pattern) up to the end of the read-locked section: a hit remembers the
\* matcher and goes on to the write lock of the hit path, a miss to the write
\* lock of the miss path.
GetBegin(t, pattern) ==
    /\ cpc[t] = "idle" /\ ncalls < MaxCalls
    /\ ncalls' = ncalls + 1
    /\ cpat' = [cpat EXCEPT ![t] = pattern]
    /\ IF HasKey(rc.cache, pattern)
          THEN /\ cpc' = [cpc EXCEPT ![t] = "touch"]
               /\ cre' = [cre EXCEPT ![t] = rc.cache[pattern]]
       ELSE /\ cpc' = [cpc EXCEPT ![t] = "miss"]
            /\ cre' = cre
    /\ UNCHANGED << searchVars, utilVars, rc, returned, completed, compiles, evicted >>

\* A get call returns the matcher re.
GetReturns(t, re) ==
    /\ cpc' = [cpc EXCEPT ![t] = "idle"]
    /\ cpat' = [cpat EXCEPT ![t] = ""]
    /\ cre' = [cre EXCEPT ![t] = 0]
    /\ returned' = [returned EXCEPT ![cpat[t]] = @ \cup {re}]
    /\ completed' = [completed EXCEPT ![cpat[t]] = @ + 1]

\* The matcher of a failed call: return nil, err.
NilMatcher == 0

CompileFailedMutant(c, pattern) ==
    LET victim == CHOOSE v \in Victims(c.accesses) : TRUE
    IN IF Cardinality(DOMAIN c.cache) >= c.maxSize
          THEN [c EXCEPT !.cache = Del(c.cache, victim),
                         !.accesses = Del(c.accesses, victim)]
       ELSE c

\* if err != nil { return nil, err }: the compile failed before the eviction
\* and the insertion; the cache is as it was.
CompileFailed(c, pattern) == c

\* The hit path: Lock, accesses[pattern]++, Unlock, return re.
GetTouch(t) ==
    /\ cpc[t] = "touch"
    /\ rc' = CacheTouch(rc, cpat[t])
    /\ GetReturns(t, cre[t])
    /\ UNCHANGED << searchVars, utilVars, ncalls, compiles, evicted >>

\* The miss path, under the write lock: the second look, the compile, the
\* eviction and the insertion.
GetMiss(t) ==
    /\ cpc[t] = "miss"
    /\ LET pattern == cpat[t]
       IN IF HasKey(rc.cache, pattern)
             THEN /\ rc' = CacheTouch(rc, pattern)
                  /\ GetReturns(t, rc.cache[pattern])
                  /\ UNCHANGED << compiles, evicted >>
          ELSE IF ~Compiles(pattern)
             THEN /\ rc' = CompileFailed(rc, pattern)
                  /\ cpc' = [cpc EXCEPT ![t] = "idle"]
                  /\ cpat' = [cpat EXCEPT ![t] = ""]
                  /\ returned' = [returned EXCEPT ![pattern] = @ \cup {NilMatcher}]
                  /\ compiles' = [compiles EXCEPT ![pattern] = @ + 1]
                  /\ evicted' = evicted \cup ((DOMAIN rc.cache) \ (DOMAIN rc'.cache))
                  /\ UNCHANGED << cre, completed >>
          ELSE \E victim \in Victims(rc.accesses) :
                  /\ rc' = CacheInsert(rc, pattern, victim)
                  /\ GetReturns(t, rc.compiled + 1)
                  /\ compiles' = [compiles EXCEPT ![pattern] = @ + 1]
                  /\ evicted' = evicted \cup ((DOMAIN rc.cache) \ (DOMAIN rc'.cache))
    /\ UNCHANGED << searchVars, utilVars, ncalls >>

(***************************************************************************)
(* scanTextFile and scanHTMLFile.  A reader is the bytes it delivers and   *)
(* whether it then fails (err) or ends; an HTML document is the sequence   *)
(* of tokens html.Tokenizer cuts it into.                                  *)
(***************************************************************************)
PollEvery == 100

Scanners == 1..NumScanners

PollDueMutant(tokenCount) == tokenCount = 0

\* if tokenCount%100 == 0: the context is polled before the next token.
PollDue(tokenCount) == tokenCount % PollEvery = 0

TextToken(s) == [type |-> "text", text |-> s, tag |-> ""]

StartTag(name) == [type |-> "start", text |-> <<>>, tag |-> name]

EndTag(name) == [type |-> "end", text |-> <<>>, tag |-> name]

SelfClosingTag(name) == [type |-> "selfclosing", text |-> <<>>, tag |-> name]

TagTokens == {"start", "end", "selfclosing"}

CommentToken == [type |-> "comment", text |-> <<"a">>, tag |-> ""]

isBlockLevelTagMutant(tagName) == TRUE

isBlockLevelTag(tagName) ==
    tagName \in {"p", "div", "br", "h1", "h2", "h3", "h4", "h5", "h6", "li",
                 "blockquote", "hr", "pre", "tr", "table"}

\* matches = append(matches, Match{...})
AppendMatch(matches, line, fileName) ==
    [isNil |-> FALSE, seq |-> Append(matches.seq, [Line |-> line, FileName |-> fileName])]

\* start := max(i-contextLines, 0); end := min(i+contextLines+1, len(lines))
SliceStart(i, contextLines) == max(i - contextLines, 0)

SliceEnd(lines, i, contextLines) == min(i + contextLines + 1, Len(lines))

\* lines[start:end] with start > end: the slice expression panics.
InvertedRange(lines, i, contextLines) ==
    SliceStart(i, contextLines) > SliceEnd(lines, i, contextLines)

WindowMutant(lines, i, contextLines) ==
    TrimSpace(Join(SubSeq(lines, max(i - contextLines, 0) + 1,
                          min(i + contextLines, Len(lines))), <<"\n">>))

\* The text of the match at line i (from 0): lines[start:end] joined by
\* newlines and trimmed.
Window(lines, i, contextLines) ==
    TrimSpace(Join(SubSeq(lines, max(i - contextLines, 0) + 1,
                          min(i + contextLines + 1, Len(lines))), <<"\n">>))

\* The documents and readers the scans are run on.
TextData ==
    { << "a", " ", "a", "\n", "b", "\n", " ", "a", " " >>,
      << "b", "\n", "a", "\r", "\n", "A" >>,
      << "\n", "a", "\n", "\n" >>,
      << "a", "\n", "b" >>,
      << "b", "b" >>,
      << >> }

ShortDocs ==
    { << StartTag("p"), TextToken(<< "a", " ", " ", "b" >>), EndTag("p"),
         TextToken(<< "a" >>), StartTag("i"), TextToken(<< "b" >>), EndTag("i"),
         SelfClosingTag("br"), TextToken(<< "\n", " " >>), CommentToken,
         StartTag("div"), TextToken(<< "A" >>) >>,
      << TextToken(<< "b" >>) >>,
      << >> }

\* A document of more than PollEvery tokens: its first line matches.
LongDoc ==
    [i \in 1..(PollEvery + 3) |->
        IF i = 1 THEN TextToken(<< "a" >>)
        ELSE IF i % 2 = 0 THEN StartTag("p")
        ELSE TextToken(<< "b" >>)]

ScanPatterns == {"a", "(?i)a"}

TextInput(data, err, pattern, contextLines) ==
    [kind |-> "text", data |-> data, err |-> err, tokens |-> <<>>,
     pattern |-> pattern, fileName |-> "p1.txt", contextLines |-> contextLines,
     ctx |-> "live"]

HtmlInput(tokens, pattern, contextLines, ctx) ==
    [kind |-> "html", data |-> <<>>, err |-> FALSE, tokens |-> tokens,
     pattern |-> pattern, fileName |-> "c1.xhtml", contextLines |-> contextLines,
     ctx |-> ctx]

ScanInputs ==
    { TextInput(d, e, p, k) :
         d \in TextData, e \in BOOLEAN, p \in ScanPatterns, k \in 0..MaxContext }
    \cup { HtmlInput(t, p, k, c) :
              t \in ShortDocs \cup {LongDoc}, p \in ScanPatterns,
              k \in 0..MaxContext, c \in {"live", "done"} }

\* The scans run concurrently on the pools.
PoolInputs ==
    { TextInput(<< "a", "\n", "b" >>, FALSE, "a", 1),
      TextInput(<< "a", "\n", "b" >>, TRUE, "a", 0),
      HtmlInput(<< TextToken(<< "b" >>), StartTag("p"), TextToken(<< "a" >>) >>,
                "a", 0, "live") }

\* make([]byte, 0, 16*1024), and the tokenizer's three buffers
ScannerBufferCap == 16384

TextBufferCap == 4096

TagBufferCap == 256

AttrBufferCap == 1024

\* make([]byte, 0, n)
MakeBuffer(n) == [len |-> 0, cap |-> n]

\* b[:0]
Reslice0(b) == [b EXCEPT !.len = 0]

\* pooledScanner: the scanner's unread data and pending error, the bytes
\* its buffer holds and the buffer slice; id tells the pooled values apart.
\* newPooledScanner(strings.NewReader("")).
newPooledScanner ==
    [id |-> 0, data |-> <<>>, err |-> FALSE, buffer |-> <<>>,
     slice |-> MakeBuffer(ScannerBufferCap)]

resetScannerMutant(ps, in) == [ps EXCEPT !.data = ps.buffer \o in.data, !.err = in.err]

\* pooledScanner.reset: a new scanner on the reader, with ps.buffer[:0].
resetScanner(ps, in) ==
    [ps EXCEPT !.data = in.data, !.err = in.err, !.slice = Reslice0(ps.slice)]

\* pooledTokenizer: the tokens its tokenizer has not produced yet, and the
\* three buffers.
newPooledTokenizer ==
    [id |-> 0, tokens |-> <<>>, textBuffer |-> MakeBuffer(TextBufferCap),
     tagBuffer |-> MakeBuffer(TagBufferCap), attrBuffer |-> MakeBuffer(AttrBufferCap)]

resetTokenizerMutant(pt, in) == [pt EXCEPT !.tokens = pt.tokens \o in.tokens]

\* pooledTokenizer.reset: a new tokenizer on the reader, the buffers cut to
\* length 0.
resetTokenizer(pt, in) ==
    [pt EXCEPT !.tokens = in.tokens,
               !.textBuffer = Reslice0(pt.textBuffer),
               !.tagBuffer = Reslice0(pt.tagBuffer),
               !.attrBuffer = Reslice0(pt.attrBuffer)]

NoInput == TextInput(<<>>, FALSE, "", 0)

IdleScan ==
    [pc |-> "idle", in |-> NoInput, ps |-> newPooledScanner,
     pt |-> newPooledTokenizer, lines |-> <<>>, cur |-> <<>>,
     matches |-> NilMatches, count |-> 0, ctx |-> "live", cancelAt |-> -1,
     ret |-> NilMatches, pooled |-> FALSE]

ScanIdle ==
    /\ scan = [g \in Scanners |-> IdleScan]
    /\ scannerPool = {}
    /\ tokenizerPool = {}
    /\ nscans = 0
    /\ outs = {}

\* The id of a pooled value that New makes: one that no scan holds and no
\* pool keeps.
NewId ==
    LET busy == { h \in Scanners : scan[h].pc \notin {"idle", "done", "panic"} }
        used == { scan[h].ps.id : h \in busy } \cup { scan[h].pt.id : h \in busy }
                  \cup { ps.id : ps \in scannerPool } \cup { pt.id : pt \in tokenizerPool }
    IN Least((1..(Cardinality(used) + 1)) \ used)

\* scannerPool.Get / tokenizerPool.Get, reset, and the locals' first values;
\* pooled records that Get returned a value put back by an earlier scan.
\* Get takes a value out of the pool or has New make one.
ScanBegin(g, in) ==
    /\ scan[g].pc \in {"idle", "done"}
    /\ nscans < MaxScans
    /\ nscans' = nscans + 1
    /\ IF in.kind = "text"
          THEN \E ps \in scannerPool \cup {[newPooledScanner EXCEPT !.id = NewId]} :
                  /\ scannerPool' = scannerPool \ {ps}
                  /\ tokenizerPool' = tokenizerPool
                  /\ scan' = [scan EXCEPT ![g] =
                                [IdleScan EXCEPT
                                    !.pc = IF in.contextLines = 0 THEN "text0" ELSE "pass1",
                                    !.in = in,
                                    !.ps = resetScanner(ps, in),
                                    !.pooled = ps \in scannerPool,
                                    !.matches = EmptyMatches]]
       ELSE \E pt \in tokenizerPool \cup {[newPooledTokenizer EXCEPT !.id = NewId]} :
               /\ tokenizerPool' = tokenizerPool \ {pt}
               /\ scannerPool' = scannerPool
               /\ scan' = [scan EXCEPT ![g] =
                             [IdleScan EXCEPT
                                 !.pc = IF PollDue(0) THEN "poll" ELSE "token",
                                 !.in = in,
                                 !.pt = resetTokenizer(pt, in),
                                 !.pooled = pt \in tokenizerPool,
                                 !.ctx = in.ctx,
                                 !.cancelAt = IF in.ctx = "done" THEN 0 ELSE -1]]
    /\ UNCHANGED << searchVars, rc, callerVars, pureVars, toolVars, outs >>

\* return ret, the locals being st: the deferred Put gives the pooled value
\* back.
ScanReturn(g, st, ret) ==
    /\ scan' = [scan EXCEPT ![g] = [st EXCEPT !.pc = "done", !.ret = ret]]
    /\ IF scan[g].in.kind = "text"
          THEN /\ scannerPool' = scannerPool \cup {scan[g].ps}
               /\ tokenizerPool' = tokenizerPool
       ELSE /\ tokenizerPool' = tokenizerPool \cup {scan[g].pt}
            /\ scannerPool' = scannerPool
    /\ outs' = outs \cup { << scan[g].in, ret >> }

\* A panic in the scan: the deferred Put still gives the pooled value back,
\* nothing is returned.
ScanPanic(g, st) ==
    /\ scan' = [scan EXCEPT ![g] = [st EXCEPT !.pc = "panic"]]
    /\ IF scan[g].in.kind = "text"
          THEN /\ scannerPool' = scannerPool \cup {scan[g].ps}
               /\ tokenizerPool' = tokenizerPool
       ELSE /\ tokenizerPool' = tokenizerPool \cup {scan[g].pt}
            /\ scannerPool' = scannerPool
    /\ outs' = outs

TextResultMutant(err, matches) == matches

\* if err := scanner.Err(); err != nil { return nil }: what a scan whose
\* loop has ended returns.
TextResult(err, matches) == IF err THEN NilMatches ELSE matches

\* scanner.Scan() and scanner.Text(): the scanner after the call.
ScannerAdvance(ps) ==
    [ps EXCEPT !.data = ScanLines(ps.data).rest, !.buffer = ps.data]

\* contextLines == 0: one round of the loop, or the end of the scan.
TextScan0(g) ==
    /\ scan[g].pc = "text0"
    /\ LET st == scan[g]
           line == ScanLines(st.ps.data).token
       IN IF st.ps.data # <<>>
             THEN /\ scan' = [scan EXCEPT
                                ![g].ps = ScannerAdvance(st.ps),
                                ![g].matches =
                                    IF MatchString(st.in.pattern, line)
                                       THEN AppendMatch(st.matches, TrimSpace(line),
                                                        st.in.fileName)
                                    ELSE st.matches]
                  /\ UNCHANGED << scannerPool, tokenizerPool, outs >>
          ELSE ScanReturn(g, st, TextResult(st.ps.err, st.matches))
    /\ UNCHANGED << searchVars, rc, callerVars, pureVars, toolVars, nscans >>

\* contextLines # 0, first pass: the lines are collected.
TextPass1(g) ==
    /\ scan[g].pc = "pass1"
    /\ LET st == scan[g]
       IN IF st.ps.data # <<>>
             THEN /\ scan' = [scan EXCEPT
                                ![g].ps = ScannerAdvance(st.ps),
                                ![g].lines = Append(st.lines, ScanLines(st.ps.data).token)]
                  /\ UNCHANGED << scannerPool, tokenizerPool, outs >>
          ELSE IF st.ps.err
             THEN ScanReturn(g, st, TextResult(st.ps.err, st.matches))
          ELSE /\ scan' = [scan EXCEPT ![g].pc = "pass2", ![g].count = 0]
               /\ UNCHANGED << scannerPool, tokenizerPool, outs >>
    /\ UNCHANGED << searchVars, rc, callerVars, pureVars, toolVars, nscans >>

\* contextLines # 0, second pass: one match, with its window, per matching
\* line.
TextPass2(g) ==
    /\ scan[g].pc = "pass2"
    /\ LET st == scan[g]
           i == st.count
       IN IF /\ i < Len(st.lines)
             /\ MatchString(st.in.pattern, st.lines[i + 1])
             /\ InvertedRange(st.lines, i, st.in.contextLines)
             THEN ScanPanic(g, st)
          ELSE IF i < Len(st.lines)
             THEN /\ scan' = [scan EXCEPT
                                ![g].count = i + 1,
                                ![g].matches =
                                    IF MatchString(st.in.pattern, st.lines[i + 1])
                                       THEN AppendMatch(st.matches,
                                                Window(st.lines, i, st.in.contextLines),
                                                st.in.fileName)
                                    ELSE st.matches]
                  /\ UNCHANGED << scannerPool, tokenizerPool, outs >>
          ELSE ScanReturn(g, st, st.matches)
    /\ UNCHANGED << searchVars, rc, callerVars, pureVars, toolVars, nscans >>

\* flushLine: the normalised current line is appended unless it is empty.
flushLine(textLines, currentLine) ==
    LET line == Join(Fields(currentLine), << " " >>)
    IN IF line # <<>> THEN Append(textLines, line) ELSE textLines

RECURSIVE HtmlMatchesFrom(_, _, _, _, _)
\* The loop over textLines after tokenization, from line i (from 0) on.
HtmlMatchesFrom(textLines, i, pattern, contextLines, fileName) ==
    IF i >= Len(textLines) THEN <<>>
    ELSE (IF MatchString(pattern, textLines[i + 1])
             THEN << [Line |-> Window(textLines, i, contextLines),
                      FileName |-> fileName] >>
          ELSE <<>>)
         \o HtmlMatchesFrom(textLines, i + 1, pattern, contextLines, fileName)

\* Some matching line of textLines has an inverted window.
HtmlRangePanics(textLines, pattern, contextLines) ==
    \E i \in 0..(Len(textLines) - 1) :
        /\ MatchString(pattern, textLines[i + 1])
        /\ InvertedRange(textLines, i, contextLines)

\* var matches []Match stays nil when nothing is appended.
HtmlMatches(textLines, pattern, contextLines, fileName) ==
    LET found == HtmlMatchesFrom(textLines, 0, pattern, contextLines, fileName)
    IN [isNil |-> found = <<>>, seq |-> found]

\* tokenCount%100 == 0: the context is polled.
HtmlPoll(g) ==
    /\ scan[g].pc = "poll"
    /\ IF scan[g].ctx = "done"
          THEN ScanReturn(g, scan[g], NilMatches)
       ELSE /\ scan' = [scan EXCEPT ![g].pc = "token"]
            /\ UNCHANGED << scannerPool, tokenizerPool, outs >>
    /\ UNCHANGED << searchVars, rc, callerVars, pureVars, toolVars, nscans >>

\* tokenCount++, z.Next(): the end of the input ends the loop, and the
\* lines are matched; a text token is added to the current line, a
\* block-level tag flushes it.
HtmlToken(g) ==
    /\ scan[g].pc = "token"
    /\ LET st == scan[g]
           tt == Head(st.pt.tokens)
       IN IF st.pt.tokens = <<>>
             THEN LET textLines == flushLine(st.lines, st.cur)
                      after == [st EXCEPT !.lines = textLines, !.cur = <<>>]
                  IN IF HtmlRangePanics(textLines, st.in.pattern, st.in.contextLines)
                        THEN ScanPanic(g, after)
                     ELSE ScanReturn(g, after,
                                     HtmlMatches(textLines, st.in.pattern,
                                                 st.in.contextLines, st.in.fileName))
          ELSE /\ scan' = [scan EXCEPT
                             ![g].count = st.count + 1,
                             ![g].pc = IF PollDue(st.count + 1) THEN "poll" ELSE "token",
                             ![g].pt = [st.pt EXCEPT !.tokens = Tail(st.pt.tokens)],
                             ![g].cur =
                                 IF tt.type = "text" THEN st.cur \o << " " >> \o tt.text
                                 ELSE IF tt.type \in TagTokens /\ isBlockLevelTag(tt.tag)
                                    THEN <<>>
                                 ELSE st.cur,
                             ![g].lines =
                                 IF tt.type \in TagTokens /\ isBlockLevelTag(tt.tag)
                                    THEN flushLine(st.lines, st.cur)
                                 ELSE st.lines]
               /\ UNCHANGED << scannerPool, tokenizerPool, outs >>
    /\ UNCHANGED << searchVars, rc, callerVars, pureVars, toolVars, nscans >>

\* The context of a running scanHTMLFile call is cancelled.
ScanCancel(g) ==
    /\ scan[g].pc \in {"poll", "token"}
    /\ scan[g].ctx = "live"
    /\ scan' = [scan EXCEPT ![g].ctx = "done", ![g].cancelAt = scan[g].count]
    /\ UNCHANGED << searchVars, rc, callerVars, pureVars, toolVars, scannerPool, tokenizerPool, nscans, outs >>

(***************************************************************************)
(* matchesMetadataFilters, called on its own.                              *)
(***************************************************************************)
Metadatas ==
    [Authors : { <<>>, << "Doe" >>, << "smith", "DOE" >>, << "Doe Smith" >> },
     Series : {"", "Saga"},
     Title : {"", "Dune"}]

FilterValues ==
    { FiltersOf(a, sr, t, {}) :
         a \in {"", "doe", "Smith"}, sr \in {"", "SAGA"}, t \in {"", "dune", "Saga"} }

FilterIdle ==
    mf = [pc |-> "idle", metadata |-> NoMeta, filters |-> NilFilters, ret |-> FALSE]

FilterCall ==
    /\ mf.pc = "call"
    /\ mf' = [mf EXCEPT !.pc = "done",
                        !.ret = matchesMetadataFilters(mf.metadata, mf.filters)]
    /\ UNCHANGED << searchVars, rc, callerVars, scanVars, toolVars, cls >>

(***************************************************************************)
(* grepInEpub's loop body on one entry of r.File: what the loop does with  *)
(* the entry, by its name.                                                 *)
(***************************************************************************)
\* filepath.Base
Base(path) ==
    LET solid == { i \in 1..Len(path) : path[i] # "/" }
        stripped == IF solid = {} THEN <<>> ELSE SubSeq(path, 1, Greatest(solid))
        slashes == { i \in 1..Len(stripped) : stripped[i] = "/" }
    IN IF path = <<>> THEN << "." >>
       ELSE IF stripped = <<>> THEN << "/" >>
       ELSE IF slashes = {} THEN stripped
       ELSE SubSeq(stripped, Greatest(slashes) + 1, Len(stripped))

\* filepath.Ext
Ext(path) ==
    LET dots == { i \in 1..Len(path) :
                    path[i] = "." /\ \A j \in i..Len(path) : path[j] # "/" }
    IN IF dots = {} THEN <<>> ELSE SubSeq(path, Greatest(dots), Len(path))

getFileTypeMutant(name) ==
    LET ext == Ext(name)
    IN IF ext = << ".", "t", "x", "t" >> THEN "text"
       ELSE IF ext \in { << ".", "h", "t", "m", "l" >>,
                         << ".", "x", "h", "t", "m", "l" >>,
                         << ".", "x", "m", "l" >> } THEN "html"
       ELSE ""

getFileType(name) ==
    LET ext == ToLowerString(Ext(name))
    IN IF ext = << ".", "t", "x", "t" >> THEN "text"
       ELSE IF ext \in { << ".", "h", "t", "m", "l" >>,
                         << ".", "x", "h", "t", "m", "l" >>,
                         << ".", "x", "m", "l" >> } THEN "html"
       ELSE ""

skipFiles ==
    { << "c", "o", "v", "e", "r", ".", "x", "h", "t", "m", "l" >>,
      << "t", "o", "c", ".", "x", "h", "t", "m", "l" >>,
      << "t", "i", "t", "l", "e", "p", "a", "g", "e", ".", "x", "h", "t", "m", "l" >>,
      << "c", "o", "p", "y", "r", "i", "g", "h", "t", ".", "x", "h", "t", "m", "l" >>,
      << "i", "m", "p", "r", "i", "n", "t", ".", "x", "h", "t", "m", "l" >>,
      << "d", "e", "d", "i", "c", "a", "t", "i", "o", "n", ".", "x", "h", "t", "m", "l" >>,
      << "d", "e", "d", "i", "c", "a", "t", "i", "o", "n", "-", "1", ".", "x", "h", "t", "m", "l" >>,
      << "l", "i", "c", "e", "n", "s", "e", ".", "x", "h", "t", "m", "l" >>,
      << "l", "i", "c", "e", "n", "s", "e", "-", "1", ".", "x", "h", "t", "m", "l" >>,
      << "c", "o", "l", "o", "p", "h", "o", "n", ".", "x", "h", "t", "m", "l" >>,
      << "a", "b", "o", "u", "t", ".", "x", "h", "t", "m", "l" >>,
      << "a", "b", "o", "u", "t", "-", "1", ".", "x", "h", "t", "m", "l" >>,
      << "a", "c", "k", "n", "o", "w", "l", "e", "d", "g", "m", "e", "n", "t", "s", ".", "x", "h", "t", "m", "l" >>,
      << "a", "p", "p", "e", "n", "d", "i", "x", ".", "x", "h", "t", "m", "l" >>,
      << "a", "f", "t", "e", "r", "w", "o", "r", "d", ".", "x", "h", "t", "m", "l" >>,
      << "n", "o", "t", "e", "s", ".", "x", "h", "t", "m", "l" >>,
      << "b", "i", "b", "l", "i", "o", "g", "r", "a", "p", "h", "y", ".", "x", "h", "t", "m", "l" >>,
      << "i", "n", "d", "e", "x", ".", "x", "h", "t", "m", "l" >>,
      << "e", "p", "i", "l", "o", "g", "u", "e", ".", "x", "h", "t", "m", "l" >>,
      << "g", "l", "o", "s", "s", "a", "r", "y", ".", "x", "h", "t", "m", "l" >>,
      << "e", "x", "t", "r", "a", ".", "x", "h", "t", "m", "l" >>,
      << "a", "d", "s", ".", "x", "h", "t", "m", "l" >>,
      << "t", "r", "a", "i", "l", "e", "r", ".", "x", "h", "t", "m", "l" >> }

promoKeywords ==
    { << "s", "a", "m", "p", "l", "e" >>,
      << "a", "d", "v", "e", "r", "t" >>,
      << "p", "r", "o", "m", "o" >>,
      << "t", "e", "a", "s", "e", "r" >> }

shouldSkipFile(fileName) ==
    LET lowerName == ToLowerString(fileName)
        baseName == ToLowerString(Base(fileName))
    IN \/ fileName = << "m", "i", "m", "e", "t", "y", "p", "e" >>
       \/ fileName = << "M", "E", "T", "A", "-", "I", "N", "F", "/", "c", "o", "n", "t", "a", "i", "n", "e", "r", ".", "x", "m", "l" >>
       \/ baseName \in skipFiles
       \/ \E keyword \in promoKeywords : Contains(lowerName, keyword)

\* The names of the entries: a directory part, a stem and an extension.
NameDirs ==
    { << >>,
      << "O", "E", "B", "P", "S", "/" >>,
      << "M", "E", "T", "A", "-", "I", "N", "F", "/" >>,
      << "S", "a", "m", "p", "l", "e", "s", "/" >>,
      << "a", ".", "b", "/" >> }

NameStems ==
    { << >>,
      << "c", "h", "a", "p", "t", "e", "r", "1" >>,
      << "c", "o", "v", "e", "r" >>,
      << "T", "O", "C" >>,
      << "m", "i", "m", "e", "t", "y", "p", "e" >>,
      << "c", "o", "n", "t", "a", "i", "n", "e", "r" >>,
      << "s", "a", "m", "p", "l", "e", "_", "c", "h", "a", "p", "t", "e", "r" >>,
      << "x", "-", "P", "r", "o", "m", "o" >>,
      << "a", "d", "s" >>,
      << "p", "a", "g", "e", "1" >> }

NameExts ==
    { << >>,
      << ".", "t", "x", "t" >>,
      << ".", "T", "X", "T" >>,
      << ".", "h", "t", "m", "l" >>,
      << ".", "x", "h", "t", "m", "l" >>,
      << ".", "X", "H", "T", "M", "L" >>,
      << ".", "x", "m", "l" >>,
      << ".", "c", "s", "s" >> }

ClassIdle ==
    cls = [pc |-> "idle", dirPart |-> <<>>, stem |-> <<>>, ext |-> <<>>,
           name |-> <<>>, isDir |-> FALSE, opens |-> FALSE,
           skip |-> FALSE, type |-> "", scanned |-> ""]

\* One round of the loop over r.File, the context being live: directories
\* and skipped names are passed, the entry is opened, and scanned by type.
GrepClassify ==
    /\ cls.pc = "call"
    /\ cls' = [cls EXCEPT
                  !.pc = "done",
                  !.skip = shouldSkipFile(cls.name),
                  !.type = getFileType(cls.name),
                  !.scanned =
                      IF cls.isDir THEN ""
                      ELSE IF shouldSkipFile(cls.name) THEN ""
                      ELSE IF ~cls.opens THEN ""
                      ELSE IF getFileType(cls.name) \in {"text", "html"}
                         THEN getFileType(cls.name)
                      ELSE ""]
    /\ UNCHANGED << searchVars, rc, callerVars, scanVars, toolVars, mf >>

(***************************************************************************)
(* metadataExtractorImpl.ProcessDirectory: the same pool as in Search, a   *)
(* producer walking epubDir and maxThreads workers calling ProcessFile and *)
(* the metadata handler.  pd holds the call: its pool (ctxErr, errs), the  *)
(* channel (closed), the producer (ppc, ppos, perr), the workers (wpc,     *)
(* wpath, werr), the handler's invocations (handled) and the archives      *)
(* whose extraction failed (failed); untaken remembers the archives no     *)
(* worker had received when the context became done.  The extractor is     *)
(* built with maxThreads and called on dir with the caller's context ctx0; *)
(* the file counters only feed the log and are left out.                   *)
(***************************************************************************)
PDIdle ==
    [mpc |-> "idle", ctxErr |-> "none", errs |-> <<>>, closed |-> FALSE,
     result |-> <<>>, ppc |-> "off", ppos |-> 1, perr |-> "none",
     wpc |-> [w \in Workers |-> "off"], wpath |-> [w \in Workers |-> 0],
     werr |-> [w \in Workers |-> "none"], handled |-> <<>>, failed |-> {},
     untaken |-> {}, signalled |-> FALSE]

MetaIdle == pd = PDIdle

\* What no action of ProcessDirectory changes.
metaRest == << searchVars, rc, callerVars, scanVars, pureVars, pf, cli, ids >>

\* The .epub files the walk has not handed to a worker yet, the producer
\* being at position pos.
Untaken(pos) == { q \in Paths : q >= pos /\ IsEpubFile(q) }

\* ProcessDirectory up to p.Wait(): the pool on the caller's context, the
\* producer and maxThreads workers.
PDStart ==
    /\ pd.mpc = "start"
    /\ pd' = [pd EXCEPT !.mpc = "run", !.ctxErr = ctx0, !.ppc = "walk",
                        !.untaken = IF ctx0 = "none" THEN {} ELSE Untaken(1),
                        !.wpc = [w \in Workers |-> IF Started(w) THEN "recv" ELSE "off"]]
    /\ UNCHANGED metaRest

\* A goroutine of the pool returned the error e.
PDPoolFail(p, e) ==
    [p EXCEPT !.errs = Append(@, e),
              !.ctxErr = IF @ = "none" THEN "Canceled" ELSE @]

\* The walk callback is called with an error: the error is wrapped and
\* returned, paths is closed.
PDWalkErr ==
    /\ pd.ppc = "walk" /\ walkErrAt = pd.ppos
    /\ pd' = [pd EXCEPT !.ppc = "fail", !.perr = "walk error", !.closed = TRUE]
    /\ UNCHANGED metaRest

\* A directory or a file that is no .epub.
PDSkip ==
    /\ pd.ppc = "walk" /\ walkErrAt # pd.ppos /\ pd.ppos <= NumArchives
    /\ ~IsEpubFile(pd.ppos)
    /\ pd' = [pd EXCEPT !.ppos = @ + 1]
    /\ UNCHANGED metaRest

\* select, case paths <- path.
PDSend(w) ==
    /\ pd.ppc = "walk" /\ walkErrAt # pd.ppos /\ pd.ppos <= NumArchives
    /\ IsEpubFile(pd.ppos)
    /\ pd.wpc[w] = "recv"
    /\ pd' = [pd EXCEPT !.wpc[w] = "check", !.wpath[w] = pd.ppos,
                        !.ppos = @ + 1]
    /\ UNCHANGED metaRest

\* select, case <-ctx.Done(): return ctx.Err().
PDCtxDone ==
    /\ pd.ppc = "walk" /\ walkErrAt # pd.ppos /\ pd.ppos <= NumArchives
    /\ IsEpubFile(pd.ppos)
    /\ pd.ctxErr # "none"
    /\ pd' = [pd EXCEPT !.ppc = "fail", !.perr = pd.ctxErr, !.closed = TRUE]
    /\ UNCHANGED metaRest

\* The walk is over: paths is closed, the producer returns nil.
PDFinish ==
    /\ pd.ppc = "walk" /\ walkErrAt # pd.ppos /\ pd.ppos = NumArchives + 1
    /\ pd' = [pd EXCEPT !.ppc = "done", !.closed = TRUE]
    /\ UNCHANGED metaRest

\* The producer's function returned an error to the pool.
PDProducerReturnErr ==
    /\ pd.ppc = "fail"
    /\ pd' = [PDPoolFail(pd, pd.perr) EXCEPT !.ppc = "done"]
    /\ UNCHANGED metaRest

\* range paths on the closed channel: return nil.
PDWorkerRangeEnd(w) ==
    /\ pd.wpc[w] = "recv" /\ pd.closed
    /\ pd' = [pd EXCEPT !.wpc[w] = "done"]
    /\ UNCHANGED metaRest

PDCheckMutant(w) ==
    /\ pd.wpc[w] = "check"
    /\ pd' = [pd EXCEPT !.wpc[w] = IF pd.ctxErr # "none" THEN "recv" ELSE "file",
                        !.wpath[w] = IF pd.ctxErr # "none" THEN 0 ELSE @]
    /\ UNCHANGED metaRest

\* The select at the top of the loop body: return ctx.Err() on a done
\* context.
PDCheck(w) ==
    /\ pd.wpc[w] = "check"
    /\ pd' = IF pd.ctxErr # "none"
                THEN [pd EXCEPT !.wpc[w] = "fail", !.werr[w] = pd.ctxErr, !.wpath[w] = 0]
             ELSE [pd EXCEPT !.wpc[w] = "file"]
    /\ UNCHANGED metaRest

\* ProcessFile(ctx, path) succeeds when the archive opens and its manifest
\* is found and parsed.
ProcessFileOK(path) == dir[path].opens /\ dir[path].metaOK

PDFileErrorMutant(p, w) == [p EXCEPT !.wpc[w] = "fail", !.werr[w] = "file error"]

\* ProcessFile failed: the error is logged, `continue`.
PDFileError(p, w) == [p EXCEPT !.wpc[w] = "recv"]

\* ProcessFile, then the handler: a handler error is returned, otherwise
\* the loop goes on.
PDProcess(w) ==
    /\ pd.wpc[w] = "file"
    /\ LET path == pd.wpath[w]
           p == [pd EXCEPT !.wpath[w] = 0]
       IN IF ~ProcessFileOK(path)
             THEN pd' = [PDFileError(p, w) EXCEPT !.failed = @ \cup {path}]
          ELSE \E ret \in HandlerReturns :
                  pd' = [p EXCEPT
                           !.handled = Append(@, [Path |-> path,
                                                  Metadata |-> dir[path].meta,
                                                  ret |-> ret, worker |-> w]),
                           !.wpc[w] = IF ret = "none" THEN "recv" ELSE "fail",
                           !.werr[w] = ret]
    /\ UNCHANGED metaRest

\* The worker's function returned an error to the pool.
PDWorkerReturnErr(w) ==
    /\ pd.wpc[w] = "fail"
    /\ pd' = [PDPoolFail(pd, pd.werr[w]) EXCEPT !.wpc[w] = "done"]
    /\ UNCHANGED metaRest

PDAllReturned == pd.ppc = "done" /\ \A w \in Workers : pd.wpc[w] \in {"off", "done"}

\* err := p.Wait(); return err
PDWait ==
    /\ pd.mpc = "run" /\ PDAllReturned
    /\ pd' = [pd EXCEPT !.mpc = "done", !.result = pd.errs]
    /\ UNCHANGED metaRest

\* The caller cancels the context, or its deadline expires, while
\* ProcessDirectory runs.
PDSignal(e) ==
    /\ pd.mpc = "run" /\ ~PDAllReturned
    /\ ctx0 = "none" /\ pd.ctxErr = "none"
    /\ pd' = [pd EXCEPT !.ctxErr = e, !.signalled = TRUE, !.untaken = Untaken(pd.ppos)]
    /\ UNCHANGED metaRest

MetaNext ==
    \/ PDStart
    \/ PDWalkErr
    \/ PDSkip
    \/ \E w \in Workers : PDSend(w)
    \/ PDCtxDone
    \/ PDFinish
    \/ PDProducerReturnErr
    \/ \E w \in Workers : PDWorkerRangeEnd(w)
    \/ \E w \in Workers : PDCheck(w)
    \/ \E w \in Workers : PDProcess(w)
    \/ \E w \in Workers : PDWorkerReturnErr(w)
    \/ PDWait
    \/ \E e \in {"Canceled", "DeadlineExceeded"} : PDSignal(e)

(***************************************************************************)
(* metadataExtractorImpl.ProcessFile and findOpfPath: how the manifest of  *)
(* an archive is found.  An archive is the names of its entries in archive *)
(* order (files), whether META-INF/container.xml opens and parses          *)
(* (containerOK) and the rootfile elements it then yields (rootfiles), and *)
(* whether the manifest opens and parses (opfOK).                          *)
(***************************************************************************)
MaxFiles == 2

MaxRootfiles == 2

ContainerName ==
    << "M", "E", "T", "A", "-", "I", "N", "F", "/", "c", "o", "n", "t", "a", "i", "n", "e", "r", ".", "x", "m", "l" >>

PackageMediaType == "application/oebps-package+xml"

OpfSuffix == << ".", "o", "p", "f" >>

\* The entry names of the archives of the model.
EntryNames ==
    { ContainerName,
      << "m", "e", "t", "a", "-", "i", "n", "f", "/", "c", "o", "n", "t", "a", "i", "n", "e", "r", ".", "x", "m", "l" >>,
      << "a", ".", "o", "p", "f" >>,
      << "B", ".", "O", "P", "F" >>,
      << "c", ".", "t", "x", "t" >> }

\* The full-path attributes of the rootfile elements of the model.
FullPaths ==
    { << "a", ".", "o", "p", "f" >>,
      << "B", ".", "O", "P", "F" >>,
      << "b", ".", "o", "p", "f" >> }

MediaTypes == { PackageMediaType, "application/xml" }

SeqsUpTo(S, n) == UNION { [1..m -> S] : m \in 0..n }

Distinct(s) == \A i, j \in 1..Len(s) : i # j => s[i] # s[j]

ManifestArchives ==
    [files : { s \in SeqsUpTo(EntryNames, MaxFiles) : Distinct(s) },
     containerOK : BOOLEAN,
     rootfiles : SeqsUpTo([FullPath : FullPaths, MediaType : MediaTypes], MaxRootfiles),
     opfOK : BOOLEAN]

\* for _, f := range r.File { if <test> { ...; break } }: the index of the
\* first entry that passes the test, 0 when there is none.
FirstIndex(s, Test(_)) ==
    IF \E i \in 1..Len(s) : Test(s[i])
       THEN Least({ i \in 1..Len(s) : Test(s[i]) })
    ELSE 0

IsContainer(name) == name = ContainerName

IsOpf(name) == HasSuffix(ToLowerString(name), OpfSuffix)

IsPackage(rf) == rf.MediaType = PackageMediaType

findOpfPathMutant(a) ==
    LET c == FirstIndex(a.files, IsContainer)
        o == FirstIndex(a.files, IsOpf)
        p == FirstIndex(a.rootfiles, IsPackage)
    IN IF c # 0 /\ a.containerOK /\ p # 0
          THEN [path |-> a.rootfiles[p].FullPath, err |-> "none"]
       ELSE IF o # 0 THEN [path |-> a.files[o], err |-> "none"]
       ELSE [path |-> <<>>, err |-> "no opf"]

\* findOpfPath: the path of the manifest, or an error.
findOpfPath(a) ==
    LET c == FirstIndex(a.files, IsContainer)
        o == FirstIndex(a.files, IsOpf)
        p == FirstIndex(a.rootfiles, IsPackage)
    IN IF c = 0
          THEN IF o # 0 THEN [path |-> a.files[o], err |-> "none"]
               ELSE [path |-> <<>>,
                     err |-> "META-INF/container.xml not found and no .opf file in archive"]
       ELSE IF ~a.containerOK
          THEN [path |-> <<>>, err |-> "failed to read container.xml"]
       ELSE IF p # 0 THEN [path |-> a.rootfiles[p].FullPath, err |-> "none"]
       ELSE [path |-> <<>>, err |-> "no OPF rootfile found in container.xml"]

\* A nil *Metadata; a non-nil one is known by the entry it was parsed from.
NilMetadata == [isNil |-> TRUE, from |-> 0]

\* ProcessFile on an archive that opens: the manifest path found, the
\* *Metadata returned (nil, or the metadata parsed from the manifest named)
\* and the error.
ProcessFile(a) ==
    LET found == findOpfPath(a)
        opfPath == found.path
        IsManifest(name) == name = opfPath
        opfFile == FirstIndex(a.files, IsManifest)
    IN IF found.err # "none"
          THEN [opfPath |-> <<>>, metadata |-> NilMetadata, err |-> "failed to find opf path"]
       ELSE IF opfFile = 0
          THEN [opfPath |-> opfPath, metadata |-> NilMetadata, err |-> "opf file not found in epub"]
       ELSE IF ~a.opfOK
          THEN [opfPath |-> opfPath, metadata |-> NilMetadata, err |-> "failed to parse opf file"]
       ELSE [opfPath |-> opfPath, metadata |-> [isNil |-> FALSE, from |-> opfFile], err |-> "none"]

NoArchive == [files |-> <<>>, containerOK |-> FALSE, rootfiles |-> <<>>, opfOK |-> FALSE]

NoResult == [opfPath |-> <<>>, metadata |-> NilMetadata, err |-> "none"]

ManifestIdle == pf = [pc |-> "idle", archive |-> NoArchive, ret |-> NoResult]

ProcessFileCall ==
    /\ pf.pc = "call"
    /\ pf' = [pf EXCEPT !.pc = "done", !.ret = ProcessFile(pf.archive)]
    /\ UNCHANGED << searchVars, rc, callerVars, scanVars, pureVars, pd, cli, ids >>

(***************************************************************************)
(* The epub-search command: main, runSearch and the result handler it      *)
(* passes to Search.  Search is the calls it makes of the handler: the     *)
(* results its workers deliver (pending: their match counts), each worker  *)
(* calling the handler for one result at a time, and the error it returns  *)
(* in the end (fails).  The handler appends to results and adds to         *)
(* totalMatches without a lock: each is a read followed by a write.        *)
(***************************************************************************)
MaxResults == 2

MatchCounts == {1, 2}

CliFlags ==
    [args : {"ok", "bad"}, filters : BOOLEAN, extractMetadata : BOOLEAN,
     dirExists : BOOLEAN, maxThreads : 1..MaxThreads]

NoFlags ==
    [args |-> "ok", filters |-> FALSE, extractMetadata |-> FALSE, dirExists |-> TRUE,
     maxThreads |-> 1]

NoSummary == [TotalFiles |-> 0, TotalMatches |-> 0]

CliStopped ==
    [pc |-> "idle", flags |-> NoFlags, fails |-> "none", pending |-> <<>>,
     hpc |-> [w \in Workers |-> "idle"], hres |-> [w \in Workers |-> 0],
     hread |-> [w \in Workers |-> <<>>], hsum |-> [w \in Workers |-> 0],
     results |-> <<>>, totalMatches |-> 0, calls |-> <<>>,
     err |-> "none", printed |-> FALSE, summary |-> NoSummary, exit |-> -1]

CliIdle == cli = CliStopped

cliRest == << searchVars, rc, callerVars, scanVars, pureVars, pd, pf, ids >>

\* rootCmd.Execute(): cobra parses the arguments and calls runSearch.
CliExecute ==
    /\ cli.pc = "main"
    /\ cli' = IF cli.flags.args = "bad"
                 THEN [cli EXCEPT !.pc = "failed", !.err = "invalid arguments"]
              ELSE [cli EXCEPT !.pc = "runSearch"]
    /\ UNCHANGED cliRest

\* runSearch up to the call of Search: the two validations.
CliValidate ==
    /\ cli.pc = "runSearch"
    /\ cli' = IF cli.flags.filters /\ ~cli.flags.extractMetadata
                 THEN [cli EXCEPT !.pc = "failed",
                                  !.err = "metadata filters require --extract-metadata"]
              ELSE IF ~cli.flags.dirExists
                 THEN [cli EXCEPT !.pc = "failed", !.err = "directory does not exist"]
              ELSE [cli EXCEPT !.pc = "search"]
    /\ UNCHANGED cliRest

\* A worker of Search calls the handler with its next result.
CliHandlerCalled(w) ==
    /\ cli.pc = "search" /\ w <= cli.flags.maxThreads
    /\ cli.hpc[w] = "idle" /\ cli.pending # <<>>
    /\ cli' = [cli EXCEPT !.hpc[w] = "append", !.hres[w] = Head(cli.pending),
                          !.pending = Tail(@),
                          !.calls = Append(@, Head(cli.pending))]
    /\ UNCHANGED cliRest

\* results = append(results, searchRes): the slice is read ...
CliAppendRead(w) ==
    /\ cli.hpc[w] = "append"
    /\ cli' = [cli EXCEPT !.hpc[w] = "appended", !.hread[w] = cli.results]
    /\ UNCHANGED cliRest

\* ... and the slice with the element added is stored.
CliAppendWrite(w) ==
    /\ cli.hpc[w] = "appended"
    /\ cli' = [cli EXCEPT !.hpc[w] = "add", !.hread[w] = <<>>,
                          !.results = Append(cli.hread[w], cli.hres[w])]
    /\ UNCHANGED cliRest

\* totalMatches += len(result.Matches): the counter is read ...
CliTotalRead(w) ==
    /\ cli.hpc[w] = "add"
    /\ cli' = [cli EXCEPT !.hpc[w] = "added", !.hsum[w] = cli.totalMatches]
    /\ UNCHANGED cliRest

\* ... and the sum is stored; the handler returns nil.
CliTotalWrite(w) ==
    /\ cli.hpc[w] = "added"
    /\ cli' = [cli EXCEPT !.hpc[w] = "idle", !.hsum[w] = 0, !.hres[w] = 0,
                          !.totalMatches = cli.hsum[w] + cli.hres[w]]
    /\ UNCHANGED cliRest

\* Search returns: nil, or the error that runSearch wraps as "search
\* failed".
CliSearchReturns ==
    /\ cli.pc = "search" /\ cli.pending = <<>>
    /\ \A w \in Workers : cli.hpc[w] = "idle"
    /\ cli' = IF cli.fails # "none"
                 THEN [cli EXCEPT !.pc = "failed", !.err = "search failed"]
              ELSE [cli EXCEPT !.pc = "output"]
    /\ UNCHANGED cliRest

\* outputJSON: the results and the summary are printed; main returns.
CliOutput ==
    /\ cli.pc = "output"
    /\ cli' = [cli EXCEPT !.pc = "exit", !.printed = TRUE, !.exit = 0,
                          !.summary = [TotalFiles |-> Len(cli.results),
                                       TotalMatches |-> cli.totalMatches]]
    /\ UNCHANGED cliRest

\* main: if err := rootCmd.Execute(); err != nil { ...; os.Exit(1) }
ExitOnError == 1

CliFail ==
    /\ cli.pc = "failed"
    /\ cli' = [cli EXCEPT !.pc = "exit", !.exit = ExitOnError]
    /\ UNCHANGED cliRest

CliNext ==
    \/ CliExecute
    \/ CliValidate
    \/ \E w \in Workers : CliHandlerCalled(w)
    \/ \E w \in Workers : CliAppendRead(w)
    \/ \E w \in Workers : CliAppendWrite(w)
    \/ \E w \in Workers : CliTotalRead(w)
    \/ \E w \in Workers : CliTotalWrite(w)
    \/ CliSearchReturns
    \/ CliOutput
    \/ CliFail

(***************************************************************************)
(* ProcessFile: the identifiers of a parsed manifest.  The identifier      *)
(* elements are gone through first, then the meta elements; each meta      *)
(* element is looked at as a name/content pair and then as a               *)
(* property/value pair.                                                    *)
(***************************************************************************)
MaxIdentifiers == 2

MaxMetas == 2

Digits == {"0", "1", "2", "3", "4", "5", "6", "7", "8", "9"}

\* strings.HasPrefix
HasPrefix(s, prefix) == Len(s) >= Len(prefix) /\ SubSeq(s, 1, Len(prefix)) = prefix

\* strings.ReplaceAll(s, c, ""), c one character
RemoveAll(s, c) == SelectSeq(s, LAMBDA x : x # c)

isNumeric(s) == \A i \in 1..Len(s) : s[i] \in Digits

isISBN10(s) ==
    /\ Len(s) = 10
    /\ \A i \in 1..Len(s) : (i = 10 /\ s[i] \in {"X", "x"}) \/ s[i] \in Digits

normalizeIdentifierKey(scheme0) ==
    LET scheme == ToLowerString(TrimSpace(scheme0))
    IN IF scheme \in {<< "i", "s", "b", "n" >>, << "i", "s", "b", "n", "-", "1", "0" >>, << "i", "s", "b", "n", "-", "1", "3" >>}
          THEN << "i", "s", "b", "n" >>
       ELSE IF scheme \in {<< "u", "r", "i" >>, << "u", "r", "l" >>} THEN << "u", "r", "i" >>
       ELSE scheme

extractIdentifierFromMetaName(name0) ==
    LET name == ToLowerString(TrimSpace(name0))
    IN CASE name \in {<< "d", "c", ":", "i", "d", "e", "n", "t", "i", "f", "i", "e", "r" >>, << "d", "t", "b", ":", "u", "i", "d" >>} -> <<>>
         [] name = << "c", "a", "l", "i", "b", "r", "e", ":", "i", "s", "b", "n" >> -> << "i", "s", "b", "n" >>
         [] name = << "c", "a", "l", "i", "b", "r", "e", ":", "a", "s", "i", "n" >> -> << "a", "s", "i", "n" >>
         [] name = << "c", "a", "l", "i", "b", "r", "e", ":", "d", "o", "i" >> -> << "d", "o", "i" >>
         [] name = << "c", "a", "l", "i", "b", "r", "e", ":", "i", "s", "s", "n" >> -> << "i", "s", "s", "n" >>
         [] name = << "c", "a", "l", "i", "b", "r", "e", ":", "o", "c", "l", "c" >> -> << "o", "c", "l", "c" >>
         [] name = << "c", "a", "l", "i", "b", "r", "e", ":", "l", "c", "c", "n" >> -> << "l", "c", "c", "n" >>
         [] name = << "c", "a", "l", "i", "b", "r", "e", ":", "g", "o", "o", "g", "l", "e", "_", "i", "d" >> -> << "g", "o", "o", "g", "l", "e" >>
         [] name = << "c", "a", "l", "i", "b", "r", "e", ":", "g", "o", "o", "d", "r", "e", "a", "d", "s", "_", "i", "d" >> -> << "g", "o", "o", "d", "r", "e", "a", "d", "s" >>
         [] name = << "c", "a", "l", "i", "b", "r", "e", ":", "a", "m", "a", "z", "o", "n", "_", "i", "d" >> -> << "a", "m", "a", "z", "o", "n" >>
         [] OTHER ->
              IF HasPrefix(name, << "c", "a", "l", "i", "b", "r", "e", ":" >>) /\ HasSuffix(name, << "_", "i", "d" >>)
                 THEN normalizeIdentifierKey(SubSeq(name, 9, Len(name) - 3))
              ELSE <<>>

extractIdentifierFromProperty(property0) ==
    LET property == ToLowerString(TrimSpace(property0))
    IN IF property \in {<< "i", "s", "b", "n" >>, << "d", "o", "i" >>, << "i", "s", "s", "n" >>, << "o", "c", "l", "c" >>, << "l", "c", "c", "n" >>}
          THEN property
       ELSE <<>>

detectIdentifierType(value0) ==
    LET value == TrimSpace(value0)
        cleanValue == RemoveAll(RemoveAll(value, "-"), " ")
    IN IF /\ Len(cleanValue) \in {10, 13}
          /\ isNumeric(cleanValue) \/ (Len(cleanValue) = 10 /\ isISBN10(cleanValue))
          THEN << "i", "s", "b", "n" >>
       ELSE IF Len(value) = 10 /\ value[1] \in {"B", "b"} THEN << "a", "s", "i", "n" >>
       ELSE IF HasPrefix(value, << "1", "0", "." >>) THEN << "d", "o", "i" >>
       ELSE IF \/ HasPrefix(ToLowerString(value), << "h", "t", "t", "p", ":", "/", "/" >>)
               \/ HasPrefix(ToLowerString(value), << "h", "t", "t", "p", "s", ":", "/", "/" >>)
          THEN << "u", "r", "i" >>
       ELSE IF HasPrefix(ToLowerString(value), << "u", "r", "n", ":" >>) THEN << "u", "r", "n" >>
       ELSE <<>>

\* The <identifier> elements of the manifests of the model.
IdentifierElements ==
    [Scheme : {<<>>, << "I", "S", "B", "N" >>, << "x" >>},
     Value : {<<>>, << " ", "1" >>, << " " >>, << "1", "0", ".", "5" >>}]

MetaElement(name, content, property, value) ==
    [Name |-> name, Content |-> content, Property |-> property, Value |-> value]

\* The <meta> elements of the manifests of the model.
MetaElements ==
    { MetaElement(<< "c", "a", "l", "i", "b", "r", "e", ":", "i", "s", "b", "n" >>, << "3" >>, <<>>, <<>>),
      MetaElement(<< "c", "a", "l", "i", "b", "r", "e", ":", "i", "s", "b", "n" >>, << " " >>, <<>>, <<>>),
      MetaElement(<<>>, <<>>, << " ", "I", "S", "B", "N" >>, << "4", " " >>),
      MetaElement(<< "c", "a", "l", "i", "b", "r", "e", ":", "i", "s", "b", "n" >>, << "3" >>, << "i", "s", "b", "n" >>, << "4" >>),
      MetaElement(<< "c", "a", "l", "i", "b", "r", "e", ":", "d", "o", "i", "_", "i", "d" >>, << "5" >>, <<>>, <<>>),
      MetaElement(<< "c", "a", "l", "i", "b", "r", "e", ":", "s", "e", "r", "i", "e", "s" >>, << "S" >>, <<>>, <<>>),
      MetaElement(<< "d", "c", ":", "i", "d", "e", "n", "t", "i", "f", "i", "e", "r" >>, << "6" >>, <<>>, <<>>) }

\* if identifier.Value != "" { key := ...; if key != "" { Identifiers[key] = TrimSpace(Value) } }
putIdentifier(out, identifier) ==
    LET scheme == normalizeIdentifierKey(identifier.Scheme)
        key == IF scheme = <<>> THEN detectIdentifierType(identifier.Value) ELSE scheme
    IN IF identifier.Value # <<>> /\ key # <<>>
          THEN Put(out, key, TrimSpace(identifier.Value))
       ELSE out

\* if meta.Name != "" && meta.Content != "" { ... }
putMetaName(out, meta) ==
    LET key == extractIdentifierFromMetaName(meta.Name)
    IN IF meta.Name # <<>> /\ meta.Content # <<>> /\ key # <<>>
          THEN Put(out, key, TrimSpace(meta.Content))
       ELSE out

\* if meta.Property != "" && meta.Value != "" { ... }
putMetaProperty(out, meta) ==
    LET key == extractIdentifierFromProperty(meta.Property)
    IN IF meta.Property # <<>> /\ meta.Value # <<>> /\ key # <<>>
          THEN Put(out, key, TrimSpace(meta.Value))
       ELSE out

IdentStopped ==
    [pc |-> "idle", identifiers |-> <<>>, metas |-> <<>>, i |-> 0, out |-> EmptyMap]

IdentIdle == ids = IdentStopped

\* Identifiers: make(map[string]string), once the manifest is decoded.
IdentStart ==
    /\ ids.pc = "parsed"
    /\ ids' = [ids EXCEPT !.pc = "identifiers", !.i = 1, !.out = EmptyMap]
    /\ UNCHANGED << searchVars, rc, callerVars, scanVars, pureVars, pd, pf, cli >>

\* for _, identifier := range opfData.Metadata.Identifier: one round, or
\* the end of the loop.
IdentIdentifier ==
    /\ ids.pc = "identifiers"
    /\ IF ids.i <= Len(ids.identifiers)
          THEN ids' = [ids EXCEPT !.i = ids.i + 1,
                                  !.out = putIdentifier(ids.out, ids.identifiers[ids.i])]
       ELSE ids' = [ids EXCEPT !.pc = "metas", !.i = 1]
    /\ UNCHANGED << searchVars, rc, callerVars, scanVars, pureVars, pd, pf, cli >>

\* for _, meta := range opfData.Metadata.Meta: one round, or the end of the
\* loop and the return.
IdentMeta ==
    /\ ids.pc = "metas"
    /\ IF ids.i <= Len(ids.metas)
          THEN ids' = [ids EXCEPT
                         !.i = ids.i + 1,
                         !.out = putMetaProperty(putMetaName(ids.out, ids.metas[ids.i]),
                                                 ids.metas[ids.i])]
       ELSE ids' = [ids EXCEPT !.pc = "done"]
    /\ UNCHANGED << searchVars, rc, callerVars, scanVars, pureVars, pd, pf, cli >>

IdentNext == IdentStart \/ IdentIdentifier \/ IdentMeta

(***************************************************************************)
(* Specifications.                                                         *)
(***************************************************************************)
\* One Search call, on the process-wide patternCache.
Init ==
    /\ SearchInit
    /\ rc = newRegexCache(patternCacheMaxSize)
    /\ CallersIdle
    /\ ScanIdle /\ FilterIdle /\ ClassIdle /\ MetaIdle /\ ManifestIdle /\ CliIdle /\ IdentIdle

Next ==
    \/ SearchStart
    \/ ProducerWalkErr
    \/ ProducerSkip
    \/ \E w \in Workers : ProducerSend(w)
    \/ ProducerCtxDone
    \/ ProducerFinish
    \/ ProducerReturnErr
    \/ \E w \in Workers : WorkerRangeEnd(w)
    \/ \E w \in Workers : WorkerCheck(w)
    \/ \E w \in Workers : WorkerGrepEntry(w)
    \/ \E w \in Workers : WorkerGrepFailed(w)
    \/ \E w \in Workers : WorkerHtmlPoll(w)
    \/ \E w \in Workers : WorkerReturnErr(w)
    \/ SearchWait
    \/ \E e \in {"Canceled", "DeadlineExceeded"} : CallerSignal(e)

Spec == Init /\ [][Next]_vars

\* Concurrent callers of get on one cache; no Search is running.
CacheInit ==
    /\ SearchInit
    /\ dir = Directory(0) /\ walkErrAt = 0 /\ maxThreads = 1 /\ ~extractMetadata
    /\ request = [Query |-> CHOOSE q \in Queries : QueryError(q) # "none" /\ q.IsRegex,
                  Filters |-> NilFilters]
    /\ ctx0 = "none"
    /\ \E m \in 1..MaxCacheSize : rc = newRegexCache(m)
    /\ CallersIdle
    /\ ScanIdle /\ FilterIdle /\ ClassIdle /\ MetaIdle /\ ManifestIdle /\ CliIdle /\ IdentIdle

CacheNext ==
    \/ \E t \in Callers, pattern \in CachePatterns : GetBegin(t, pattern)
    \/ \E t \in Callers : GetTouch(t)
    \/ \E t \in Callers : GetMiss(t)

SpecCache == CacheInit /\ [][CacheNext]_vars

\* One Search call of a valid, unfiltered request on a FileSearch built with
\* any thread count, zero and negative counts included.
ThreadsInit ==
    /\ SearchInitWith((-1)..MaxThreads)
    /\ walkErrAt \in {0, 2}
    /\ ~extractMetadata
    /\ request = [Query |-> [IsRegex |-> TRUE, Regex |-> RegexOf("a"), Text |-> NilText],
                  Filters |-> NilFilters]
    /\ ctx0 = "none"
    /\ rc = newRegexCache(patternCacheMaxSize)
    /\ CallersIdle
    /\ ScanIdle /\ FilterIdle /\ ClassIdle /\ MetaIdle /\ ManifestIdle /\ CliIdle /\ IdentIdle

SpecThreads == ThreadsInit /\ [][Next]_vars

\* One ProcessDirectory call.
MetaInit ==
    /\ SearchInitWith(1..MaxThreads)
    /\ ~extractMetadata
    /\ request = [Query |-> CHOOSE q \in Queries : QueryError(q) # "none" /\ q.IsRegex,
                  Filters |-> NilFilters]
    /\ rc = newRegexCache(patternCacheMaxSize)
    /\ CallersIdle
    /\ ScanIdle /\ FilterIdle /\ ClassIdle /\ ManifestIdle /\ CliIdle /\ IdentIdle
    /\ pd = [PDIdle EXCEPT !.mpc = "start"]

SpecMeta == MetaInit /\ [][MetaNext]_vars

\* One call of Search (of a valid request) or one call of ProcessDirectory
\* (beside a Search call that its request makes fail at once), every
\* goroutine being scheduled: while a step of the program is possible, one
\* is eventually taken.  The caller's signal is not a step of the program.
LiveInit ==
    \/ /\ SearchInitWith(1..MaxThreads)
       /\ ~extractMetadata
       /\ request = [Query |-> [IsRegex |-> TRUE, Regex |-> RegexOf("a"), Text |-> NilText],
                     Filters |-> NilFilters]
       /\ rc = newRegexCache(patternCacheMaxSize)
       /\ CallersIdle
       /\ ScanIdle /\ FilterIdle /\ ClassIdle /\ MetaIdle /\ ManifestIdle /\ CliIdle /\ IdentIdle
    \/ MetaInit

LiveNext == Next \/ MetaNext

ProgramStep == LiveNext /\ signalled' = signalled /\ pd'.signalled = pd.signalled

SpecLive == LiveInit /\ [][LiveNext]_vars /\ WF_vars(ProgramStep)

\* No Search is running and no get is called.
SearchIdle ==
    /\ SearchInit
    /\ dir = Directory(0) /\ walkErrAt = 0 /\ maxThreads = 1 /\ ~extractMetadata
    /\ request = [Query |-> CHOOSE q \in Queries : QueryError(q) # "none" /\ q.IsRegex,
                  Filters |-> NilFilters]
    /\ ctx0 = "none"
    /\ rc = newRegexCache(patternCacheMaxSize)
    /\ CallersIdle

\* One call of scanTextFile or scanHTMLFile, on any of the inputs.
ScanInit == SearchIdle /\ ScanIdle /\ FilterIdle /\ ClassIdle /\ MetaIdle /\ ManifestIdle /\ CliIdle /\ IdentIdle

ScanNext ==
    \/ \E in \in ScanInputs : nscans = 0 /\ ScanBegin(1, in)
    \/ TextScan0(1)
    \/ TextPass1(1)
    \/ TextPass2(1)
    \/ HtmlPoll(1)
    \/ HtmlToken(1)
    \/ ScanCancel(1)

SpecScan == ScanInit /\ [][ScanNext]_vars

\* The Context values a SearchRequest can carry: an int, negative or not.
RequestContexts == (0 - MaxContext)..MaxContext

\* grepInEpub(ctx, path, patternRegex, request.Context): Search hands the
\* request's Context to the scans as it is.
grepContextLines(requestContext) == requestContext

\* One scan of an entry for a Search whose request carries any Context.
ContextNext ==
    \/ \E in \in ScanInputs, k \in RequestContexts :
          nscans = 0 /\ ScanBegin(1, [in EXCEPT !.contextLines = grepContextLines(k)])
    \/ TextScan0(1)
    \/ TextPass1(1)
    \/ TextPass2(1)
    \/ HtmlPoll(1)
    \/ HtmlToken(1)
    \/ ScanCancel(1)

SpecContext == ScanInit /\ [][ContextNext]_vars

\* Scans running one after another and concurrently on the two pools.
PoolNext ==
    \/ \E g \in Scanners, in \in PoolInputs : ScanBegin(g, in)
    \/ \E g \in Scanners : TextScan0(g)
    \/ \E g \in Scanners : TextPass1(g)
    \/ \E g \in Scanners : TextPass2(g)
    \/ \E g \in Scanners : HtmlPoll(g)
    \/ \E g \in Scanners : HtmlToken(g)

SpecPool == ScanInit /\ [][PoolNext]_vars

\* Scans on the two pools that end in each way: at the end of the input,
\* on a read error, on a cancelled context.
CheckoutInputs ==
    { TextInput(<< "a" >>, FALSE, "a", 1),
      TextInput(<< "b" >>, TRUE, "a", 0),
      HtmlInput(<< TextToken(<< "a" >>), StartTag("p") >>, "a", 0, "live") }

CheckoutNext ==
    \/ \E g \in Scanners, in \in CheckoutInputs : ScanBegin(g, in)
    \/ \E g \in Scanners : TextScan0(g)
    \/ \E g \in Scanners : TextPass1(g)
    \/ \E g \in Scanners : TextPass2(g)
    \/ \E g \in Scanners : HtmlPoll(g)
    \/ \E g \in Scanners : HtmlToken(g)
    \/ \E g \in Scanners : ScanCancel(g)

SpecCheckout == ScanInit /\ [][CheckoutNext]_vars

\* One call of matchesMetadataFilters on any metadata and filters.
FilterInit ==
    /\ SearchIdle /\ ScanIdle /\ ClassIdle /\ MetaIdle /\ ManifestIdle /\ CliIdle /\ IdentIdle
    /\ mf \in [pc : {"call"}, metadata : Metadatas, filters : FilterValues, ret : {FALSE}]

FilterNext == FilterCall

SpecFilters == FilterInit /\ [][FilterNext]_vars

\* One entry of an archive, of any name, in grepInEpub's loop.
ClassInit ==
    /\ SearchIdle /\ ScanIdle /\ FilterIdle /\ MetaIdle /\ ManifestIdle /\ CliIdle /\ IdentIdle
    /\ \E d \in NameDirs, st \in NameStems, e \in NameExts, isDir, opens \in BOOLEAN :
          /\ d \o st \o e # <<>>
          /\ (st \o e = <<>>) => isDir
          /\ cls = [pc |-> "call", dirPart |-> d, stem |-> st, ext |-> e,
                    name |-> d \o st \o e, isDir |-> isDir, opens |-> opens,
                    skip |-> FALSE, type |-> "", scanned |-> ""]

ClassNext == GrepClassify

SpecNames == ClassInit /\ [][ClassNext]_vars

\* One ProcessFile call on an archive that opens.
ManifestInit ==
    /\ SearchIdle /\ ScanIdle /\ FilterIdle /\ ClassIdle /\ MetaIdle /\ CliIdle /\ IdentIdle
    /\ pf \in [pc : {"call"}, archive : ManifestArchives, ret : {NoResult}]

ManifestNext == ProcessFileCall

SpecManifest == ManifestInit /\ [][ManifestNext]_vars

\* One run of the command.
CliInit ==
    /\ SearchIdle /\ ScanIdle /\ FilterIdle /\ ClassIdle /\ MetaIdle /\ ManifestIdle
    /\ IdentIdle
    /\ \E f \in CliFlags, x \in {"none", "invalid pattern", "walk error"},
          p \in SeqsUpTo(MatchCounts, MaxResults) :
          /\ x = "invalid pattern" => p = <<>>
          /\ cli = [CliStopped EXCEPT !.pc = "main", !.flags = f, !.fails = x,
                                      !.pending = p]

SpecCli == CliInit /\ [][CliNext]_vars

\* The identifiers of one manifest, of any identifier and meta elements.
IdentInit ==
    /\ SearchIdle /\ ScanIdle /\ FilterIdle /\ ClassIdle /\ MetaIdle /\ ManifestIdle
    /\ CliIdle
    /\ \E identifiers \in SeqsUpTo(IdentifierElements, MaxIdentifiers),
          metas \in SeqsUpTo(MetaElements, MaxMetas) :
          ids = [IdentStopped EXCEPT !.pc = "parsed", !.identifiers = identifiers,
                                     !.metas = metas]

SpecIdentifiers == IdentInit /\ [][IdentNext]_vars

(***************************************************************************)
(* What an uncancelled run computes, as functions of the inputs.           *)
(***************************************************************************)
RECURSIVE GrepFrom(_, _)
\* grepInEpub on an archive that opens, the context never done: the matches
\* of the scanned entries from the k-th on, in archive order.
GrepFrom(entries, k) ==
    IF k > Len(entries) THEN <<>>
    ELSE (IF entries[k].type \in {"text", "html"}
             THEN [i \in 1..Len(entries[k].mt) |->
                      [Line |-> entries[k].mt[i], FileName |-> k]]
          ELSE <<>>) \o GrepFrom(entries, k + 1)

Done == mpc = "done"

HandlerFailed == \E i \in 1..Len(delivered) : delivered[i].ret # "none"

DeliveredPaths == { delivered[i].Path : i \in 1..Len(delivered) }

\* The item is a file named .epub and FilesIn, when given, holds its path.
InFilesIn(path) ==
    /\ ~dir[path].isDir
    /\ HasSuffix(ToLowerString(dir[path].name), << ".", "e", "p", "u", "b" >>)
    /\ \/ request.Filters.isNil \/ request.Filters.FilesIn = {}
       \/ path \in request.Filters.FilesIn

HasMatches(path) == dir[path].opens /\ Len(GrepFrom(dir[path].entries, 1)) > 0

PassesFilters(path) ==
    request.Filters.isNil \/ ~extractMetadata
        \/ /\ (request.Filters.AuthorEquals = ""
                 \/ \E i \in 1..Len(dir[path].meta.Authors) :
                       ToLower(dir[path].meta.Authors[i]) = ToLower(request.Filters.AuthorEquals))
           /\ (request.Filters.SeriesEquals = ""
                 \/ ToLower(dir[path].meta.Series) = ToLower(request.Filters.SeriesEquals))
           /\ (request.Filters.TitleEquals = ""
                 \/ ToLower(dir[path].meta.Title) = ToLower(request.Filters.TitleEquals))

MetadataReadable(path) == ~extractMetadata \/ dir[path].metaOK

\* The request fails validation or its pattern does not compile.
InvalidRequest ==
    \/ request.Query.IsRegex /\ request.Query.Regex.isNil
    \/ ~request.Query.IsRegex /\ request.Query.Text.isNil
    \/ request.Query.IsRegex /\ ~request.Query.Regex.isNil
          /\ request.Query.Regex.Pattern = "[x"

\* A run of a valid request with no cancellation, no deadline, no handler
\* error and no walk error.
Clean ==
    ~InvalidRequest /\ ctx0 = "none" /\ ~signalled /\ ~HandlerFailed /\ walkErrAt = 0

ContextErrors == {"Canceled", "DeadlineExceeded"}

(***************************************************************************)
(* C1.  Search called with an already-cancelled context returns nil and    *)
(* never invokes the handler, whatever the directory holds.                *)
(* The producer's hand-off select can take the ctx.Done() case and return  *)
(* context.Canceled, which the pool collects: the claim fails on the code. *)
(***************************************************************************)
C1_PreCancelledIsSilent ==
    (ctx0 = "Canceled" /\ ~InvalidRequest)
        => (delivered = <<>> /\ (Done => result = <<>>))

(***************************************************************************)
(* C2.  When the caller's cancellation or deadline fires during the run    *)
(* and an archive is abandoned or skipped because of it, Search returns a  *)
(* non-nil cancellation / deadline error.                                  *)
(* A signal that fires after the last hand-off is seen by the workers      *)
(* only, which return nil for it: the claim fails on the code.             *)
(***************************************************************************)
C2_MidRunSignalIsError ==
    (Done /\ signalled /\ abandoned # {})
        => \E i \in 1..Len(result) : result[i] \in ContextErrors

(***************************************************************************)
(* C3.  When the handler returns an error e, Search returns exactly e,     *)
(* whatever cancellation the producer or another worker observed.          *)
(* The pool joins every collected error: the claim fails on the code.      *)
(***************************************************************************)
C3_HandlerErrorIsTheResult ==
    (Done /\ HandlerFailed) => result = << "handler error" >>

(***************************************************************************)
(* C4.  As claimed: once an invocation of the handler has returned an      *)
(* error, no worker invokes the handler again.                             *)
(***************************************************************************)
C4_NoHandlerCallAfterError ==
    [][HandlerFailed => delivered' = delivered]_vars

(***************************************************************************)
(* C4, amended.  A worker whose handler invocation returned an error never *)
(* invokes the handler again, and once the pool's context is done every    *)
(* worker invokes the handler at most once more (for the archive it was    *)
(* already scanning).                                                      *)
(***************************************************************************)
C4_AtMostOneLateCallPerWorker ==
    /\ \A i, j \in 1..Len(delivered) :
          (i < j /\ delivered[i].ret # "none")
              => delivered[j].worker # delivered[i].worker
    /\ \A w \in Workers :
          Cardinality({ i \in 1..Len(delivered) :
                          delivered[i].worker = w /\ delivered[i].late }) <= 1

C4_Witness ==
    \E i, j \in 1..Len(delivered) :
        i < j /\ delivered[i].ret # "none" /\ delivered[j].late

(***************************************************************************)
(* C5.  As claimed: in a run without cancellation, handler error or walk   *)
(* error the handler is invoked exactly once for every enumerated archive  *)
(* that has a match and passes the filters, and for no other archive.      *)
(***************************************************************************)
NoPathTwice ==
    \A i, j \in 1..Len(delivered) : i # j => delivered[i].Path # delivered[j].Path

C5_OncePerMatchingArchive ==
    (Done /\ Clean)
        => /\ NoPathTwice
           /\ \A path \in Paths :
                 (InFilesIn(path) /\ HasMatches(path) /\ PassesFilters(path))
                     => path \in DeliveredPaths
           /\ \A path \in DeliveredPaths : HasMatches(path)

(***************************************************************************)
(* C5, amended.  In such a run the handler is invoked exactly once for     *)
(* every enumerated archive that has a match, whose metadata can be        *)
(* extracted when metadata extraction is on, and that passes the filters;  *)
(* never for an archive with zero matches, never twice for one path.       *)
(***************************************************************************)
ExpectedPaths ==
    { path \in Paths : /\ InFilesIn(path) /\ HasMatches(path)
                       /\ MetadataReadable(path) /\ PassesFilters(path) }

C5_OncePerDeliverableArchive ==
    (Done /\ Clean)
        => /\ NoPathTwice
           /\ \A path \in ExpectedPaths : path \in DeliveredPaths
           /\ \A path \in DeliveredPaths : HasMatches(path)

C5_Witness ==
    /\ Done /\ Clean /\ maxThreads = 2
    /\ Len(delivered) >= 1
    /\ \E path \in Paths : InFilesIn(path) /\ dir[path].opens /\ ~HasMatches(path)

(***************************************************************************)
(* C6.  A per-archive failure (the archive does not open, or its metadata  *)
(* cannot be extracted) never surfaces: no result is delivered for that    *)
(* archive, no such error reaches the pool, and in a run where nothing     *)
(* else fails every other deliverable archive is delivered and Search      *)
(* returns nil.                                                            *)
(***************************************************************************)
FailsLocally(path) ==
    ~dir[path].opens \/ (extractMetadata /\ ~dir[path].metaOK /\ HasMatches(path))

C6_ArchiveFailureIsSkipped ==
    /\ \A path \in DeliveredPaths : ~FailsLocally(path)
    /\ \A i \in 1..Len(errs) :
          errs[i] \in ContextErrors \cup {"handler error", "walk error"}
    /\ (Done /\ Clean)
          => /\ result = <<>>
             /\ \A path \in Paths :
                   (InFilesIn(path) /\ ~FailsLocally(path) /\ HasMatches(path)
                        /\ PassesFilters(path)) => path \in DeliveredPaths

C6_Witness ==
    /\ Done /\ Clean /\ result = <<>>
    /\ \E path \in Paths : InFilesIn(path) /\ FailsLocally(path)
    /\ delivered # <<>>

(***************************************************************************)
(* C7.  The set of results an uncancelled, error-free run delivers is a    *)
(* function of the directory and the request alone: the same archive       *)
(* paths and, for each, the same metadata and match sequence, for every    *)
(* thread count and interleaving.  Two such runs therefore deliver the     *)
(* same set; only the order of delivery differs.                           *)
(***************************************************************************)
ExpectedResults ==
    { [Path |-> path,
       Metadata |-> IF extractMetadata THEN dir[path].meta ELSE NoMeta,
       Matches |-> GrepFrom(dir[path].entries, 1)] : path \in ExpectedPaths }

DeliveredResults ==
    { [Path |-> delivered[i].Path, Metadata |-> delivered[i].Metadata,
       Matches |-> delivered[i].Matches] : i \in 1..Len(delivered) }

C7_ResultSetIsDetermined ==
    (Done /\ Clean) => DeliveredResults = ExpectedResults

C7_Witness ==
    /\ Done /\ Clean /\ maxThreads = 2
    /\ Len(delivered) = 2
    /\ delivered[1].Path > delivered[2].Path
    /\ \E i \in 1..2 : Len(delivered[i].Matches) >= 3

(***************************************************************************)
(* C8.  For a pattern that has stayed in the cache since it was first      *)
(* inserted, every completed get call returned the one cached matcher and  *)
(* added exactly 1 to its access count: the pattern was compiled once and  *)
(* its count is the number of completed calls, whatever the interleaving   *)
(* of the callers.                                                         *)
(***************************************************************************)
C8_StableEntryCountsEveryGet ==
    \A q \in DOMAIN rc.cache :
        q \notin evicted
            => /\ compiles[q] = 1
               /\ rc.accesses[q] = completed[q]
               /\ returned[q] = { rc.cache[q] }

C8_Witness ==
    \E q \in DOMAIN rc.cache :
        /\ q \notin evicted
        /\ completed[q] >= 3
        /\ \E t \in Callers : cpc[t] = "miss" /\ cpat[t] = q

(***************************************************************************)
(* C9.  A get call that inserts a new pattern into a cache holding maxSize *)
(* entries removes exactly one cached entry, one of minimal access count   *)
(* among the cached entries, and inserts the pattern with count 1; below   *)
(* maxSize entries it removes nothing.                                     *)
(* An access count left behind for an evicted pattern (the hit path        *)
(* increments after releasing the read lock) can be the one the eviction   *)
(* removes, and then no cached entry goes: the claim fails on the code.    *)
(***************************************************************************)
C9_InsertEvictsOneMinimalEntry ==
    [][\A q \in CachePatterns :
          (~HasKey(rc.cache, q) /\ HasKey(rc'.cache, q))
              => /\ rc'.accesses[q] = 1
                 /\ IF Cardinality(DOMAIN rc.cache) = rc.maxSize
                       THEN \E v \in DOMAIN rc.cache :
                               /\ DOMAIN rc'.cache = ((DOMAIN rc.cache) \ {v}) \cup {q}
                               /\ \A r \in DOMAIN rc.cache : rc.accesses[v] <= rc.accesses[r]
                    ELSE Cardinality(DOMAIN rc.cache) < rc.maxSize
                            => DOMAIN rc'.cache = (DOMAIN rc.cache) \cup {q}]_vars

(***************************************************************************)
(* C10.  A request whose required sub-spec is missing, or whose pattern    *)
(* does not compile, makes Search return an error at once: the producer    *)
(* and the workers are never started and the handler is never invoked.     *)
(***************************************************************************)
C10_InvalidRequestIsRejected ==
    InvalidRequest
        => /\ mpc # "run"
           /\ ppc = "off" /\ ppos = 1
           /\ \A w \in Workers : wpc[w] = "off"
           /\ delivered = <<>>
           /\ Done => /\ Len(result) = 1
                      /\ result[1] \in {"regex configuration is required",
                                        "text configuration is required",
                                        "invalid pattern"}

C10_Witness ==
    Done /\ InvalidRequest /\ result = << "invalid pattern" >>

(***************************************************************************)
(* C11.  A directory-walk error makes Search return a non-nil error that   *)
(* holds the walk error, with every worker returned; from the walk error   *)
(* on no archive is handed to a worker.                                    *)
(***************************************************************************)
WalkFailed == perr = "walk error"

C11_WalkErrorAbortsSearch ==
    [][ /\ WalkFailed => \A w \in Workers : wpath'[w] \in {0, wpath[w]}
        /\ (WalkFailed' /\ Done')
              => /\ result' # <<>>
                 /\ \E i \in 1..Len(result') : result'[i] = "walk error"
                 /\ \A w \in Workers : wpc'[w] \in {"off", "done"} ]_vars

C11_Witness ==
    /\ Done /\ WalkFailed /\ walkErrAt = 2
    /\ Len(delivered) >= 1
    /\ \E path \in Paths : path >= walkErrAt /\ Listed(path)

(***************************************************************************)
(* C12.  For every context k >= 0 a completed scanTextFile over an entry   *)
(* of n lines returns exactly one Match per matching line i, in line       *)
(* order, whose text is lines [max(0,i-k), min(n,i+k+1)) joined by         *)
(* newlines and trimmed: the trimmed line itself at k = 0, the whole       *)
(* content for k >= n.  A completed scanHTMLFile returns the same over its *)
(* logical lines.                                                          *)
(***************************************************************************)
RECURSIVE LinesOf(_)
\* The lines of an entry, as the scanner cuts them.
LinesOf(data) ==
    IF data = <<>> THEN <<>>
    ELSE << ScanLines(data).token >> \o LinesOf(ScanLines(data).rest)

RECURSIVE Ascending(_)
Ascending(S) ==
    IF S = {} THEN <<>> ELSE << Least(S) >> \o Ascending(S \ {Least(S)})

MatchingLines(lines, pattern) ==
    Ascending({ i \in 0..(Len(lines) - 1) : MatchString(pattern, lines[i + 1]) })

ClaimedText(lines, i, k) ==
    LET n == Len(lines)
        from == IF i - k > 0 THEN i - k ELSE 0
        to == IF i + k + 1 < n THEN i + k + 1 ELSE n
    IN IF k = 0 THEN TrimSpace(lines[i + 1])
       ELSE IF k >= n THEN TrimSpace(Join(lines, << "\n" >>))
       ELSE TrimSpace(Join([j \in 1..(to - from) |-> lines[from + j]], << "\n" >>))

ClaimedMatches(lines, in) ==
    LET at == MatchingLines(lines, in.pattern)
    IN [j \in 1..Len(at) |->
           [Line |-> ClaimedText(lines, at[j], in.contextLines),
            FileName |-> in.fileName]]

C12_WindowPerMatchingLine ==
    \A g \in Scanners :
        scan[g].pc = "done" =>
            LET st == scan[g]
                in == st.in
            IN /\ (in.kind = "text" /\ ~in.err)
                     => st.ret.seq = ClaimedMatches(LinesOf(in.data), in)
               /\ (in.kind = "html" /\ st.cancelAt = -1)
                     => st.ret.seq = ClaimedMatches(st.lines, in)

\* Two nearby matching lines of one entry, each with its own window.
C12_Witness ==
    \E g \in Scanners :
        /\ scan[g].pc = "done" /\ scan[g].in.kind = "text" /\ ~scan[g].in.err
        /\ scan[g].in.contextLines = 1
        /\ Len(LinesOf(scan[g].in.data)) = 3
        /\ Len(scan[g].ret.seq) = 2
        /\ scan[g].ret.seq[1].Line # scan[g].ret.seq[2].Line

(***************************************************************************)
(* C13.  The match sequence grepInEpub returns for an archive is the       *)
(* concatenation, in archive entry order, of what the scans of its entries *)
(* returned; the matches of one entry are in increasing line order, and    *)
(* every Match carries the name of the entry it came from.  When no scan   *)
(* was cut short it is the concatenation over all scanned entries.         *)
(***************************************************************************)
FromEntry(matches, k) == SelectSeq(matches, LAMBDA m : m.FileName = k)

InEntryThenLineOrder(matches, entries) ==
    /\ \A i, j \in 1..Len(matches) :
           i < j => \/ matches[i].FileName < matches[j].FileName
                    \/ /\ matches[i].FileName = matches[j].FileName
                       /\ matches[i].Line < matches[j].Line
    /\ \A i \in 1..Len(matches) :
           LET k == matches[i].FileName
           IN /\ k \in 1..Len(entries)
              /\ entries[k].type \in {"text", "html"}
              /\ \E l \in 1..Len(entries[k].mt) : entries[k].mt[l] = matches[i].Line
              /\ Len(FromEntry(matches, k)) = Len(entries[k].mt)

C13_MatchesInEntryThenLineOrder ==
    /\ \A i \in 1..Len(delivered) :
           /\ InEntryThenLineOrder(delivered[i].Matches, dir[delivered[i].Path].entries)
           /\ ~delivered[i].late
                 => delivered[i].Matches = GrepFrom(dir[delivered[i].Path].entries, 1)
    /\ \A w \in Workers :
           wpath[w] # 0 => InEntryThenLineOrder(wacc[w].seq, dir[wpath[w]].entries)

C13_Witness ==
    \E i \in 1..Len(delivered) :
        /\ Len(delivered[i].Matches) >= 3
        /\ \E m, n \in 1..Len(delivered[i].Matches) :
               delivered[i].Matches[m].FileName # delivered[i].Matches[n].FileName

(***************************************************************************)
(* C14.  With a non-empty FilesIn an archive whose walked path is not in   *)
(* FilesIn is never handed to a worker and never produces a result; with   *)
(* an empty FilesIn or no Filters the walk passes a file whose name ends   *)
(* in .epub (in any case) only by handing it to a worker, and a run that   *)
(* nothing interrupts walks the whole directory.  A directory or a file of *)
(* another name is never handed off.                                       *)
(***************************************************************************)
FilesInGiven == ~request.Filters.isNil /\ request.Filters.FilesIn # {}

NamedEpub(path) ==
    /\ ~dir[path].isDir
    /\ Len(dir[path].name) >= 5
    /\ LET n == Len(dir[path].name)
       IN /\ dir[path].name[n - 4] = "."
          /\ dir[path].name[n - 3] \in {"e", "E"}
          /\ dir[path].name[n - 2] \in {"p", "P"}
          /\ dir[path].name[n - 1] \in {"u", "U"}
          /\ dir[path].name[n] \in {"b", "B"}

MayBeHandedOff(path) ==
    NamedEpub(path) /\ (FilesInGiven => path \in request.Filters.FilesIn)

C14_FilesInGuardsTheHandOff ==
    [][ /\ \A w \in Workers : wpath'[w] # 0 => MayBeHandedOff(wpath'[w])
        /\ \A i \in 1..Len(delivered') : MayBeHandedOff(delivered'[i].Path)
        /\ (ppos' = ppos + 1 /\ NamedEpub(ppos) /\ ~FilesInGiven /\ ~WalkFailed')
              => \E w \in Workers : wpath[w] = 0 /\ wpath'[w] = ppos
        /\ (Done' /\ Clean') => ppos' = NumArchives + 1 ]_vars

\* A clean run with FilesIn given: an archive outside FilesIn that has
\* matches is passed over, another one is delivered.
C14_Witness ==
    /\ Done /\ Clean /\ FilesInGiven
    /\ \E path \in Paths :
          /\ NamedEpub(path) /\ HasMatches(path)
          /\ path \notin request.Filters.FilesIn
    /\ Len(delivered) >= 1

(***************************************************************************)
(* C16.  grepInEpub checks the context before it opens an entry; a done    *)
(* context makes it return at once a nil match list and the context's      *)
(* error, the matches collected from earlier entries being dropped; with a *)
(* live context it goes on to the entry.                                   *)
(***************************************************************************)
AtEntryCheck(w) ==
    /\ wpc[w] = "grep"
    /\ wk[w] <= Len(dir[wpath[w]].entries)
    /\ dir[wpath[w]].entries[wk[w]].type # "skip"

C16_DoneContextEndsGrep ==
    [][ \A w \in Workers :
           (AtEntryCheck(w) /\ (wpc'[w] # wpc[w] \/ wk'[w] # wk[w]))
              => IF ctxErr # "none"
                    THEN /\ wpc'[w] = "grepret"
                         /\ wacc'[w] = NilMatches
                         /\ werr'[w] = ctxErr /\ werr'[w] \in ContextErrors
                         /\ delivered' = delivered
                 ELSE /\ wpc'[w] \in {"grep", "html"}
                      /\ werr'[w] = "none" ]_vars

\* grepInEpub has returned the context's error after it had collected the
\* matches of a first entry.
C16_Witness ==
    \E w \in Workers :
        /\ wpc[w] = "grepret" /\ wacc[w] = NilMatches /\ werr[w] \in ContextErrors
        /\ wk[w] = 2
        /\ dir[wpath[w]].entries[1].type = "text"
        /\ Len(dir[wpath[w]].entries[1].mt) > 0

(***************************************************************************)
(* C15.  matchesMetadataFilters returns true exactly when every non-empty  *)
(* filter field holds: AuthorEquals equals one of the authors,             *)
(* SeriesEquals the series and TitleEquals the title, each on the whole    *)
(* string and whatever the case; an empty field is ignored.                *)
(***************************************************************************)
FoldClasses ==
    { {"Doe", "DOE", "doe"}, {"Smith", "smith"}, {"Doe Smith", "doe smith"},
      {"SAGA", "Saga", "saga"}, {"Dune", "dune"} }

SameIgnoringCase(x, y) == x = y \/ \E c \in FoldClasses : x \in c /\ y \in c

C15_FiltersHoldTogether ==
    mf.pc = "done" =>
        (mf.ret <=>
            /\ \/ mf.filters.AuthorEquals = ""
               \/ \E i \in 1..Len(mf.metadata.Authors) :
                     SameIgnoringCase(mf.metadata.Authors[i], mf.filters.AuthorEquals)
            /\ \/ mf.filters.SeriesEquals = ""
               \/ SameIgnoringCase(mf.metadata.Series, mf.filters.SeriesEquals)
            /\ \/ mf.filters.TitleEquals = ""
               \/ SameIgnoringCase(mf.metadata.Title, mf.filters.TitleEquals))

\* Accepted on the second author and on the title, both in another case.
C15_Witness ==
    /\ mf.pc = "done" /\ mf.ret
    /\ mf.filters.AuthorEquals = "doe" /\ mf.metadata.Authors = << "smith", "DOE" >>
    /\ mf.filters.TitleEquals = "dune" /\ mf.metadata.Title = "Dune"

(***************************************************************************)
(* C17.  shouldSkipFile is true exactly when the name is mimetype or       *)
(* META-INF/container.xml, or its lower-cased base name is in the fixed    *)
(* list, or its lower-cased full name contains sample, advert, promo or    *)
(* teaser.  An entry is scanned only if it is no directory, is not skipped *)
(* and its extension is, in any case, .txt (text scanner) or .html, .xhtml *)
(* or .xml (HTML scanner); and every such entry that the loop reaches with *)
(* a live context and can open is scanned, by that scanner.                *)
(***************************************************************************)
ClaimedBaseName ==
    IF cls.stem \o cls.ext # <<>> THEN cls.stem \o cls.ext
    ELSE SubSeq(cls.dirPart, 1, Len(cls.dirPart) - 1)

ClaimedSkip ==
    \/ cls.name = << "m", "i", "m", "e", "t", "y", "p", "e" >>
    \/ cls.name = << "M", "E", "T", "A", "-", "I", "N", "F", "/", "c", "o", "n", "t", "a", "i", "n", "e", "r", ".", "x", "m", "l" >>
    \/ ToLowerString(ClaimedBaseName) \in skipFiles
    \/ \E kw \in { << "s", "a", "m", "p", "l", "e" >>, << "a", "d", "v", "e", "r", "t" >>, << "p", "r", "o", "m", "o" >>, << "t", "e", "a", "s", "e", "r" >> } :
          Contains(ToLowerString(cls.name), kw)

ClaimedScanner ==
    IF ToLowerString(cls.ext) = << ".", "t", "x", "t" >> THEN "text"
    ELSE IF ToLowerString(cls.ext) \in { << ".", "h", "t", "m", "l" >>, << ".", "x", "h", "t", "m", "l" >>, << ".", "x", "m", "l" >> }
       THEN "html"
    ELSE ""

C18_ReadErrorYieldsNil ==
    \A g \in Scanners :
        (scan[g].pc = "done" /\ scan[g].in.kind = "text" /\ scan[g].in.err)
            => scan[g].ret = NilMatches

\* The reader failed after a matching line had been read and, with no
\* context lines, had been appended to the match list.
C18_Witness ==
    \E g \in Scanners :
        /\ scan[g].pc = "done" /\ scan[g].in.kind = "text" /\ scan[g].in.err
        /\ scan[g].in.contextLines = 0
        /\ Len(scan[g].matches.seq) >= 2
        /\ scan[g].ret.isNil

(***************************************************************************)
(* C19.  As claimed: scanHTMLFile returns nil, with nothing consumed, when *)
(* its context is cancelled at entry, and when the context is cancelled    *)
(* during tokenization it returns nil after at most 100 further tokens.    *)
(* A cancellation is seen only at a poll: when the input ends before the   *)
(* next poll the scan completes and returns its matches.                   *)
(***************************************************************************)
CancelledAtEntry(g) == scan[g].in.kind = "html" /\ scan[g].in.ctx = "done"

CancelledWhileTokenizing(g) ==
    scan[g].in.kind = "html" /\ scan[g].in.ctx = "live" /\ scan[g].cancelAt >= 0

C20_SameInputSameMatches ==
    /\ \A x, y \in outs : x[1] = y[1] => x[2] = y[2]
    /\ \A g \in Scanners :
          scan[g].pc = "done" => << scan[g].in, scan[g].ret >> \in outs

\* The same input scanned twice, once on a new scanner and once on a
\* scanner that an earlier scan put back, with matches found.
C20_Witness ==
    \E g, h \in Scanners :
        /\ g # h
        /\ scan[g].pc = "done" /\ scan[h].pc = "done"
        /\ scan[g].in = scan[h].in
        /\ scan[g].in.kind = "text"
        /\ scan[g].pooled /\ ~scan[h].pooled
        /\ scan[g].ps.buffer # <<>>
        /\ scan[g].ret.seq # <<>>
        /\ nscans >= 3

(***************************************************************************)
(* C27.  After any sequence and interleaving of get calls on a cache built *)
(* with maxSize >= 1, the cache holds at most maxSize compiled patterns    *)
(* and the patterns with an access count are exactly the cached patterns.  *)
(* The hit path increments the count after it released the read lock: a    *)
(* pattern evicted in between gets a count back, and the next eviction     *)
(* can pick that count, remove no cached entry and let the cache grow      *)
(* past maxSize.  The claim fails on the code.                             *)
(***************************************************************************)
C27_CacheBoundedAndCountsMatch ==
    /\ Cardinality(DOMAIN rc.cache) <= rc.maxSize
    /\ DOMAIN rc.accesses = DOMAIN rc.cache

(***************************************************************************)
(* C30.  As claimed: grepInEpub returns an empty, non-nil match list with  *)
(* a nil error when the archive opens and no entry matches, and a nil list *)
(* together with an error only when the context is done (or the archive    *)
(* cannot be opened).                                                      *)
(* matches starts as a nil slice and appending no element leaves it nil:   *)
(* with no match the list returned is nil.                                 *)
(***************************************************************************)
AtGrepReturn(w) ==
    wpc[w] = "grep" /\ wpath[w] # 0 /\ wk[w] > Len(dir[wpath[w]].entries)

AtGrepError(w) == wpc[w] = "grepret"

C30_NoMatchIsEmptyNotNil ==
    \A w \in Workers :
        /\ AtGrepReturn(w) => ~wacc[w].isNil /\ werr[w] = "none"
        /\ AtGrepError(w) => wacc[w] = NilMatches /\ werr[w] \in ContextErrors

(***************************************************************************)
(* C30, amended.  When the archive opens and the context stays live,       *)
(* grepInEpub returns a nil error and the matches of its entries: a list   *)
(* of length 0 when no entry matches, which is the nil list, and a non-nil *)
(* list otherwise.  It returns the nil list together with an error when    *)
(* the context is done before an entry is opened.                          *)
(***************************************************************************)
C30_NoMatchIsNilWithoutError ==
    \A w \in Workers :
        /\ AtGrepReturn(w)
              => /\ werr[w] = "none"
                 /\ wacc[w].isNil <=> (wacc[w].seq = <<>>)
                 /\ (\A k \in 1..Len(dir[wpath[w]].entries) :
                        dir[wpath[w]].entries[k].mt = <<>>) => wacc[w] = NilMatches
        /\ AtGrepError(w) => wacc[w] = NilMatches /\ werr[w] \in ContextErrors

\* An archive whose entries were scanned and did not match: nil, nil.
C30_Witness ==
    \E w \in Workers :
        /\ AtGrepReturn(w)
        /\ ctxErr = "none"
        /\ \E k \in 1..Len(dir[wpath[w]].entries) : dir[wpath[w]].entries[k].type = "html"
        /\ wacc[w] = NilMatches

(***************************************************************************)
(* C28.  Every SearchResult delivered to the handler carries the complete  *)
(* match sequence of its archive, the sequence an uncancelled grepInEpub   *)
(* of that archive returns: a cancellation or deadline during the scan     *)
(* never makes a truncated list reach the handler.                         *)
(* scanHTMLFile returns nil when one of its polls finds the context done,  *)
(* and grepInEpub looks at the context only before it opens a further      *)
(* entry: when the cancelled HTML entry is the last one scanned, the       *)
(* matches of the earlier entries are returned without an error and        *)
(* delivered.  The claim fails on the code.                                *)
(***************************************************************************)
C28_DeliveredMatchesAreComplete ==
    \A i \in 1..Len(delivered) :
        delivered[i].Matches = GrepFrom(dir[delivered[i].Path].entries, 1)

(***************************************************************************)
(* C29.  Search runs a fixed pool of exactly maxThreads workers, where a   *)
(* configured count <= 0 is replaced by the host parallelism (>= 1): at    *)
(* any time at most maxThreads archives are being processed, each by one   *)
(* worker; and the hand-off is synchronous: the producer moves past an     *)
(* archive it has to hand off only in the step in which a worker waiting   *)
(* in its range loop receives that archive (on a done context it stops     *)
(* instead).                                                               *)
(***************************************************************************)
ThreadCountNormalised ==
    /\ maxThreads >= 1
    /\ configuredThreads > 0 => maxThreads = configuredThreads
    /\ configuredThreads <= 0 => maxThreads \in HostCPUs

PoolStarted == ppc # "off"

InProcess == { w \in Workers : wpath[w] # 0 }

FixedPool ==
    /\ PoolStarted => { w \in Workers : wpc[w] # "off" } = 1..maxThreads
    /\ InProcess \subseteq 1..maxThreads
    /\ Cardinality({ wpath[w] : w \in InProcess }) = Cardinality(InProcess)
    /\ Cardinality(InProcess) <= maxThreads

SynchronousHandOff ==
    ppos' # ppos
        => /\ ppos' = ppos + 1
           /\ (IsEpubFile(ppos) /\ Listed(ppos))
                 => \E w \in Workers :
                       /\ wpc[w] = "recv" /\ wpath[w] = 0
                       /\ wpath'[w] = ppos
                       /\ \A v \in Workers \ {w} : wpath'[v] = wpath[v]

C29_FixedPoolSynchronousHandOff ==
    [](ThreadCountNormalised /\ FixedPool) /\ [][SynchronousHandOff]_vars

\* A FileSearch built with no thread count on a host of two CPUs: both
\* workers are processing an archive, the producer is past both.
C29_Witness ==
    /\ configuredThreads <= 0 /\ maxThreads = 2
    /\ \A w \in 1..2 : wpc[w] \in {"grep", "html"}
    /\ wpath[1] # wpath[2]
    /\ ppos = 3

(***************************************************************************)
(* C21.  In a ProcessDirectory run that ends without cancellation or       *)
(* handler error, the metadata handler is invoked exactly once, with the   *)
(* archive's path and metadata, for every enumerated .epub file whose      *)
(* extraction succeeds, and never for a file whose extraction fails or     *)
(* that is no .epub file; a failing file is skipped and does not make      *)
(* ProcessDirectory return an error.  (A walk error cancels the pool's     *)
(* context: a run with a walk error does not end without cancellation.)    *)
(***************************************************************************)
PDDone == pd.mpc = "done"

PDHandlerFailed == \E i \in 1..Len(pd.handled) : pd.handled[i].ret # "none"

PDClean == ctx0 = "none" /\ ~pd.signalled /\ ~PDHandlerFailed /\ walkErrAt = 0

PDEnumerated(path) == path < pd.ppos /\ IsEpubFile(path)

PDCalls(path) == { i \in 1..Len(pd.handled) : pd.handled[i].Path = path }

C21_HandlerOncePerExtractedArchive ==
    (PDDone /\ PDClean)
        => /\ \A path \in Paths :
                 Cardinality(PDCalls(path)) =
                     IF PDEnumerated(path) /\ ProcessFileOK(path) THEN 1 ELSE 0
           /\ \A i \in 1..Len(pd.handled) :
                 pd.handled[i].Metadata = dir[pd.handled[i].Path].meta
           /\ \A path \in Paths :
                 (PDEnumerated(path) /\ ~ProcessFileOK(path)) => path \in pd.failed
           /\ pd.ppos = NumArchives + 1
           /\ pd.result = <<>>

\* Two workers, an archive whose extraction failed and one that was handled:
\* no error is returned.
C21_Witness ==
    /\ PDDone /\ PDClean
    /\ maxThreads = 2
    /\ pd.failed # {}
    /\ pd.handled # <<>>
    /\ pd.result = <<>>

(***************************************************************************)
(* C22.  ProcessDirectory returns a non-nil error whenever the metadata    *)
(* handler has returned an error (the returned error contains the          *)
(* handler's error) or the context was cancelled while an enumerated       *)
(* archive had not yet been taken by a worker; in both cases the producer  *)
(* and all workers have stopped when it returns.                           *)
(***************************************************************************)
PDCancelled == ctx0 # "none" \/ pd.signalled

\* The archives the walk would still have handed off when the context
\* became done: those it reaches before a walk error.
PDCutOff == { q \in pd.untaken : walkErrAt = 0 \/ q < walkErrAt }

C22_HandlerErrorOrCancellationIsReturned ==
    PDDone
        => /\ PDHandlerFailed
                 => \E i \in 1..Len(pd.result) : pd.result[i] = "handler error"
           /\ (PDCancelled /\ PDCutOff # {}) => pd.result # <<>>
           /\ (PDHandlerFailed \/ (PDCancelled /\ PDCutOff # {})) => PDAllReturned

\* The context is cancelled while the second archive waits for a worker; a
\* worker takes it all the same and returns the context's error.
C22_Witness ==
    /\ PDDone
    /\ pd.signalled /\ pd.untaken # {} /\ walkErrAt = 0
    /\ pd.ppos = NumArchives + 1
    /\ ~PDHandlerFailed
    /\ pd.result # <<>>

(***************************************************************************)
(* C26.  Every call of Search and of ProcessDirectory terminates: in every *)
(* interleaving, whether the run ends by completion, handler error, walk   *)
(* error, cancellation or deadline, the producer and all workers finish    *)
(* and the call returns.  The producer is never blocked on the hand-off    *)
(* with no worker left to receive and a live context, and once the         *)
(* producer has returned the channel is closed, so no worker waits on it   *)
(* for ever.                                                               *)
(***************************************************************************)
\* Every worker's function has returned and the pool has taken its error.
WorkersGone == \A w \in Workers : wpc[w] \in {"off", "done"}

PDWorkersGone == \A w \in Workers : pd.wpc[w] \in {"off", "done"}

ProducerNeverStranded ==
    /\ (ppc = "walk" /\ WorkersGone) => (ctxErr # "none" \/ closed)
    /\ (pd.ppc = "walk" /\ PDWorkersGone) => (pd.ctxErr # "none" \/ pd.closed)

WorkersNeverStranded ==
    /\ ppc \in {"fail", "done"} => closed
    /\ pd.ppc \in {"fail", "done"} => pd.closed

CallsReturned == mpc = "done" /\ pd.mpc \in {"idle", "done"}

C26_EveryCallReturns ==
    /\ [](ProducerNeverStranded /\ WorkersNeverStranded)
    /\ <>[]CallsReturned

\* A handler error made the only worker return while the producer was
\* waiting to hand off the next archive: the cancellation released the
\* producer and Search returned.
C26_Witness ==
    /\ mpc = "done" /\ maxThreads = 1
    /\ HandlerFailed
    /\ perr = "Canceled"
    /\ ppos <= NumArchives
    /\ ~signalled /\ ctx0 = "none"

(***************************************************************************)
(* C23.  ProcessFile resolves the manifest as follows.  If an entry named  *)
(* exactly META-INF/container.xml exists, the manifest is the full-path of *)
(* the first rootfile whose media type is application/oebps-package+xml,   *)
(* and extraction fails when there is none (the .opf fallback is not       *)
(* tried) or when the descriptor cannot be read.  If the descriptor is     *)
(* absent, the manifest is the first entry in archive order whose name     *)
(* ends in .opf, whatever the case of the letters.  If neither exists, or  *)
(* the path found names no entry of the archive, extraction fails with an  *)
(* error; and whenever it fails no Metadata is returned.                   *)
(***************************************************************************)
HasDescriptor(a) == \E i \in 1..Len(a.files) : a.files[i] = ContainerName

PackageRootfiles(a) ==
    { j \in 1..Len(a.rootfiles) : a.rootfiles[j].MediaType = PackageMediaType }

EndsInOpf(name) ==
    /\ Len(name) >= 4
    /\ name[Len(name) - 3] = "."
    /\ name[Len(name) - 2] \in {"o", "O"}
    /\ name[Len(name) - 1] \in {"p", "P"}
    /\ name[Len(name)] \in {"f", "F"}

OpfEntries(a) == { i \in 1..Len(a.files) : EndsInOpf(a.files[i]) }

Failed(r) == r.err # "none" /\ r.metadata.isNil

NamesAnEntry(a, path) == \E i \in 1..Len(a.files) : a.files[i] = path

C23_ManifestResolution ==
    pf.pc = "done" =>
        LET a == pf.archive
            r == pf.ret
        IN /\ (HasDescriptor(a) /\ a.containerOK /\ PackageRootfiles(a) # {})
                 => r.opfPath = a.rootfiles[Least(PackageRootfiles(a))].FullPath
           /\ (HasDescriptor(a) /\ (~a.containerOK \/ PackageRootfiles(a) = {}))
                 => Failed(r)
           /\ (~HasDescriptor(a) /\ OpfEntries(a) # {})
                 => r.opfPath = a.files[Least(OpfEntries(a))]
           /\ (~HasDescriptor(a) /\ OpfEntries(a) = {}) => Failed(r)
           /\ ~NamesAnEntry(a, r.opfPath) => Failed(r)
           /\ r.err # "none" => r.metadata.isNil
           /\ r.err = "none"
                 => /\ ~r.metadata.isNil
                    /\ a.files[r.metadata.from] = r.opfPath

\* A descriptor without a package rootfile beside an .opf entry: the
\* extraction fails, the entry is not used.
C23_Witness ==
    /\ pf.pc = "done"
    /\ HasDescriptor(pf.archive) /\ pf.archive.containerOK
    /\ pf.archive.rootfiles # <<>>
    /\ PackageRootfiles(pf.archive) = {}
    /\ OpfEntries(pf.archive) # {}
    /\ pf.archive.opfOK
    /\ Failed(pf.ret)

(***************************************************************************)
(* C24.  In the JSON output of the command, summary.totalFiles is the      *)
(* number of results the workers delivered and summary.totalMatches the    *)
(* sum of their match counts, for every thread count and interleaving of   *)
(* the handler's invocations: no delivered result is lost or counted       *)
(* twice.                                                                  *)
(* The handler appends to results and adds to totalMatches with no lock    *)
(* while Search calls it from maxThreads goroutines: two invocations at    *)
(* the same time can both start from the same slice, or the same sum, and  *)
(* one result is lost.  The claim fails on the code.                       *)
(***************************************************************************)
RECURSIVE SumOf(_)
SumOf(s) == IF s = <<>> THEN 0 ELSE Head(s) + SumOf(Tail(s))

C24_SummaryCountsEveryResult ==
    cli.printed
        => /\ cli.summary.TotalFiles = Len(cli.calls)
           /\ cli.summary.TotalMatches = SumOf(cli.calls)

(***************************************************************************)
(* C25.  The process exits with code 0 on success, with code 1 on a        *)
(* general error (invalid arguments, directory not found, metadata filter  *)
(* without --extract-metadata) and with code 2 when the search itself      *)
(* fails.                                                                  *)
(* main exits with 1 on every error that rootCmd.Execute returns, the      *)
(* "search failed" error of runSearch included: no path exits with 2.  The *)
(* claim fails on the code.                                                *)
(***************************************************************************)
C25_ExitCodes ==
    cli.pc = "exit"
        => cli.exit = (IF cli.err = "none" THEN 0
                       ELSE IF cli.err = "search failed" THEN 2
                       ELSE 1)

(***************************************************************************)
(* C31.  A negative Context never reaches the window computation as it is: *)
(* no scan fails on an inverted range, and for every matching line i of an *)
(* entry with n lines the bounds satisfy 0 <= start <= i < end <= n.       *)
(***************************************************************************)
BoundsInOrder(lines, i, contextLines) ==
    /\ 0 <= SliceStart(i, contextLines)
    /\ SliceStart(i, contextLines) <= i
    /\ i < SliceEnd(lines, i, contextLines)
    /\ SliceEnd(lines, i, contextLines) <= Len(lines)

C31_NegativeContextIsHarmless ==
    \A g \in Scanners :
        /\ scan[g].pc # "panic"
        /\ (scan[g].pc = "pass2" /\ scan[g].count < Len(scan[g].lines)
              /\ MatchString(scan[g].in.pattern, scan[g].lines[scan[g].count + 1]))
             => BoundsInOrder(scan[g].lines, scan[g].count, scan[g].in.contextLines)

(***************************************************************************)
(* C32.  While a pattern stays cached its access count never decreases; an *)
(* entry is never evicted while another cached entry has a strictly        *)
(* smaller count; and when the cache is full, the pattern inserted last    *)
(* still has count 1 and every other cached entry has a count above 1, the *)
(* next insertion of a new pattern evicts the pattern inserted last.       *)
(* A count left behind for an evicted pattern (the hit path increments     *)
(* after releasing the read lock) is a minimum the eviction can pick       *)
(* instead: the last part fails on the code.                               *)
(***************************************************************************)
CountNeverDecreases ==
    \A q \in (DOMAIN rc.cache) \cap (DOMAIN rc'.cache) :
        rc'.accesses[q] >= rc.accesses[q]

EvictedIsMinimal ==
    \A v \in (DOMAIN rc.cache) \ (DOMAIN rc'.cache) :
        \A r \in DOMAIN rc.cache : rc.accesses[v] <= rc.accesses[r]

\* The cached pattern of the latest insertion, still at count 1, every other
\* cached entry above 1, the cache full.
LastInserted(q) ==
    /\ HasKey(rc.cache, q)
    /\ rc.cache[q] = rc.compiled
    /\ rc.accesses[q] = 1
    /\ Cardinality(DOMAIN rc.cache) >= rc.maxSize
    /\ \A r \in (DOMAIN rc.cache) \ {q} : rc.accesses[r] > 1

NewestIsNextVictim ==
    \A q \in CachePatterns :
        (LastInserted(q) /\ (DOMAIN rc'.cache) \ (DOMAIN rc.cache) # {})
            => ~HasKey(rc'.cache, q)

C32_CountsNeverDecayNewestGoesFirst ==
    [][CountNeverDecreases /\ EvictedIsMinimal /\ NewestIsNextVictim]_vars

(***************************************************************************)
(* C33.  A get call with a pattern that does not compile returns an error  *)
(* and leaves the cache as it was: nothing inserted, nothing evicted even  *)
(* at capacity, no access count changed; the failure is not remembered:    *)
(* the pattern is never cached and every such call compiles it again.      *)
(***************************************************************************)
FailingGets(q) == Cardinality({ t \in Callers : cpc[t] = "miss" /\ cpat[t] = q })

GetFailsOn(t) == cpc[t] = "miss" /\ ~Compiles(cpat[t]) /\ cpc'[t] = "idle"

InvalidNeverCached ==
    \A q \in CachePatterns :
        ~Compiles(q) => /\ ~HasKey(rc.cache, q)
                        /\ ~HasKey(rc.accesses, q)
                        /\ returned[q] \subseteq {NilMatcher}
                        /\ completed[q] = 0

C33_FailedCompileLeavesCacheAlone ==
    /\ []InvalidNeverCached
    /\ [][\A t \in Callers :
            GetFailsOn(t)
                => /\ rc' = rc
                   /\ evicted' = evicted
                   /\ returned'[cpat[t]] = {NilMatcher}
                   /\ compiles'[cpat[t]] = compiles[cpat[t]] + 1]_vars

\* Two failed calls on a full cache that has been used.
C33_Witness ==
    \E q \in CachePatterns :
        /\ ~Compiles(q) /\ compiles[q] >= 2 /\ returned[q] = {NilMatcher}
        /\ Cardinality(DOMAIN rc.cache) = rc.maxSize
        /\ \E r \in DOMAIN rc.cache : rc.accesses[r] >= 2

(***************************************************************************)
(* C34.  The logical lines of a scanHTMLFile call that ran to the end of   *)
(* its input: the document is cut at every start, end or self-closing tag  *)
(* with a block-level name; the text tokens of each piece, in order, form  *)
(* one buffer; each buffer that is not empty after its whitespace runs are *)
(* collapsed to single spaces and it is trimmed is one logical line, in    *)
(* document order.  Text separated by inline tags only is in one line,     *)
(* text separated by a block-level tag in different lines.                 *)
(***************************************************************************)
BlockLevelNames ==
    {"p", "div", "br", "li", "blockquote", "hr", "pre", "tr", "table"}
        \cup {"h1", "h2", "h3", "h4", "h5", "h6"}

IsBreak(tok) == tok.type \in {"start", "end", "selfclosing"} /\ tok.tag \in BlockLevelNames

\* s with every run of whitespace replaced by one space, then trimmed.
Collapsed(s) ==
    LET first == { i \in 1..Len(s) :
                     s[i] \notin Whitespace \/ i = 1 \/ s[i - 1] \notin Whitespace }
        at == Ascending(first)
    IN TrimSpace([j \in 1..Len(at) |->
                     IF s[at[j]] \in Whitespace THEN " " ELSE s[at[j]]])

RECURSIVE BufferOf(_, _, _)
\* The text of the text tokens among tokens[lo..hi], each after a space.
BufferOf(tokens, lo, hi) ==
    IF lo > hi THEN <<>>
    ELSE (IF tokens[lo].type = "text" THEN << " " >> \o tokens[lo].text ELSE <<>>)
         \o BufferOf(tokens, lo + 1, hi)

RECURSIVE LinesFromPieces(_, _, _)
\* The lines of the pieces that end at cuts[j], cuts[j + 1], ...
LinesFromPieces(tokens, cuts, j) ==
    IF j > Len(cuts) THEN <<>>
    ELSE LET lo == IF j = 1 THEN 1 ELSE cuts[j - 1] + 1
             line == Collapsed(BufferOf(tokens, lo, cuts[j] - 1))
         IN (IF line # <<>> THEN << line >> ELSE <<>>)
            \o LinesFromPieces(tokens, cuts, j + 1)

ClaimedLogicalLines(tokens) ==
    LET breaks == { i \in 1..Len(tokens) : IsBreak(tokens[i]) }
    IN LinesFromPieces(tokens, Ascending(breaks \cup {Len(tokens) + 1}), 1)

RanToEndOfInput(g) ==
    scan[g].pc = "done" /\ scan[g].in.kind = "html" /\ scan[g].ret # NilMatches

C34_LogicalLinesCutAtBlockTags ==
    \A g \in Scanners :
        (scan[g].pc = "done" /\ scan[g].in.kind = "html" /\ scan[g].cancelAt = -1)
            => scan[g].lines = ClaimedLogicalLines(scan[g].in.tokens)

\* A document with two texts around an inline tag, a piece of whitespace
\* only, and block-level tags of all three kinds.
C34_Witness ==
    \E g \in Scanners :
        /\ RanToEndOfInput(g)
        /\ scan[g].lines = << << "a", " ", "b" >>, << "a", " ", "b" >>, << "A" >> >>
        /\ \E i, j, k \in 1..Len(scan[g].in.tokens) :
              LET t == scan[g].in.tokens
              IN /\ i < j /\ j < k
                 /\ t[i].type = "text" /\ t[k].type = "text"
                 /\ t[j].type = "start" /\ ~IsBreak(t[j])
        /\ \E i \in 1..Len(scan[g].in.tokens) :
              LET t == scan[g].in.tokens
              IN t[i].type = "text" /\ Collapsed(t[i].text) = <<>>
        /\ { t \in {"start", "end", "selfclosing"} :
                \E i \in 1..Len(scan[g].in.tokens) :
                    scan[g].in.tokens[i].type = t /\ IsBreak(scan[g].in.tokens[i]) }
              = {"start", "end", "selfclosing"}

(***************************************************************************)
(* C35.  With extractMetadata false the AuthorEquals, SeriesEquals and     *)
(* TitleEquals of the request have no effect and no manifest is read: in   *)
(* a run that nothing cuts short every enumerated archive with a match is  *)
(* delivered, whatever its metadata and whether or not its manifest can be *)
(* read, and every result carries the zero Metadata.  With extractMetadata *)
(* true every delivered archive passes the filters.                        *)
(***************************************************************************)
MetadataFiltersGiven ==
    /\ ~request.Filters.isNil
    /\ << request.Filters.AuthorEquals, request.Filters.SeriesEquals,
          request.Filters.TitleEquals >> # << "", "", "" >>

C35_FiltersNeedExtractMetadata ==
    /\ ~extractMetadata
          => /\ \A i \in 1..Len(delivered) : delivered[i].Metadata = NoMeta
             /\ (Done /\ Clean)
                   => DeliveredPaths = { path \in Paths : InFilesIn(path) /\ HasMatches(path) }
    /\ (extractMetadata /\ MetadataFiltersGiven)
          => \A i \in 1..Len(delivered) :
                /\ dir[delivered[i].Path].metaOK
                /\ delivered[i].Metadata = dir[delivered[i].Path].meta
                /\ matchesMetadataFilters(delivered[i].Metadata, request.Filters)

\* Filters are given without metadata extraction; an archive whose metadata
\* fails them and one whose manifest cannot be read are both delivered.
C35_Witness ==
    /\ Done /\ Clean /\ ~extractMetadata /\ MetadataFiltersGiven
    /\ \E i, j \in 1..Len(delivered) :
          /\ ~dir[delivered[i].Path].metaOK
          /\ dir[delivered[j].Path].metaOK
          /\ ~matchesMetadataFilters(dir[delivered[j].Path].meta, request.Filters)

(***************************************************************************)
(* C36.  The identifiers of a manifest are the merge of three sources in   *)
(* the order (a) identifier elements, (b) meta name/content pairs,         *)
(* (c) meta property/value pairs: for a key derived by several writes the  *)
(* value of the later source wins, within one source the later element;    *)
(* stored values are trimmed; nothing is written for an empty value or an  *)
(* empty derived key.                                                      *)
(* The code goes through the meta elements once, taking each as a          *)
(* name/content pair and then as a property/value pair, and it tests the   *)
(* value for emptiness before trimming it.                                 *)
(***************************************************************************)
IdentifierKey(e) ==
    IF normalizeIdentifierKey(e.Scheme) # <<>> THEN normalizeIdentifierKey(e.Scheme)
    ELSE detectIdentifierType(e.Value)

\* The writes of a source, in document order, as << key, value >> pairs.
WritesOfIdentifiers(identifiers) ==
    [j \in 1..Len(identifiers) |->
        << IdentifierKey(identifiers[j]), identifiers[j].Value >>]

WritesOfNames(metas) ==
    [j \in 1..Len(metas) |->
        << IF metas[j].Name = <<>> THEN <<>>
           ELSE extractIdentifierFromMetaName(metas[j].Name),
           metas[j].Content >>]

WritesOfProperties(metas) ==
    [j \in 1..Len(metas) |->
        << IF metas[j].Property = <<>> THEN <<>>
           ELSE extractIdentifierFromProperty(metas[j].Property),
           metas[j].Value >>]

\* The writes that count: a key and a value, neither empty.
Effective(writes) == SelectSeq(writes, LAMBDA w : w[1] # <<>> /\ w[2] # <<>>)

\* The mapping a sequence of writes leaves: for each key the trimmed value
\* of its last write.
LastWriterWins(writes) ==
    LET keys == { writes[j][1] : j \in 1..Len(writes) }
    IN [k \in keys |->
           TrimSpace(writes[Greatest({ j \in 1..Len(writes) : writes[j][1] = k })][2])]

ClaimedIdentifiers(identifiers, metas) ==
    LastWriterWins(Effective(WritesOfIdentifiers(identifiers))
                   \o Effective(WritesOfNames(metas))
                   \o Effective(WritesOfProperties(metas)))

C36_IdentifiersMergedSourceBySource ==
    ids.pc = "done"
        => /\ ids.out = ClaimedIdentifiers(ids.identifiers, ids.metas)
           /\ \A k \in DOMAIN ids.out : k # <<>> /\ ids.out[k] # <<>>

(***************************************************************************)
(* C37.  A pooled scanner or tokenizer is held by at most one scan at a    *)
(* time; a scan gives its pooled value back on every way out (return, read *)
(* error, cancellation); every value checked out is reset before use: it   *)
(* reads the new reader, its buffers have length 0 and the capacity they   *)
(* had.                                                                    *)
(***************************************************************************)
Scanning(g) == scan[g].pc \notin {"idle", "done", "panic"}

\* The pooled value scan g holds: its kind and id.
Held(g) ==
    IF scan[g].in.kind = "text" THEN << "scanner", scan[g].ps.id >>
    ELSE << "tokenizer", scan[g].pt.id >>

Idle ==
    { << "scanner", ps.id >> : ps \in scannerPool }
        \cup { << "tokenizer", pt.id >> : pt \in tokenizerPool }

HeldByOne ==
    /\ \A g, h \in Scanners : (Scanning(g) /\ Scanning(h) /\ g # h) => Held(g) # Held(h)
    /\ \A g \in Scanners : Scanning(g) => Held(g) \notin Idle
    /\ \A x, y \in scannerPool : x.id = y.id => x = y
    /\ \A x, y \in tokenizerPool : x.id = y.id => x = y

GivenBack(g) == (Scanning(g) /\ ~Scanning(g)') => Held(g) \in Idle'

BuffersAsNew(g) ==
    IF scan[g].in.kind = "text"
       THEN scan[g].ps.slice = MakeBuffer(ScannerBufferCap)
    ELSE /\ scan[g].pt.textBuffer = MakeBuffer(TextBufferCap)
         /\ scan[g].pt.tagBuffer = MakeBuffer(TagBufferCap)
         /\ scan[g].pt.attrBuffer = MakeBuffer(AttrBufferCap)

ReadsNewReader(g) ==
    IF scan[g].in.kind = "text"
       THEN scan[g].ps.data = scan[g].in.data /\ scan[g].ps.err = scan[g].in.err
    ELSE scan[g].pt.tokens = scan[g].in.tokens

ResetAtCheckout(g) ==
    (~Scanning(g) /\ Scanning(g)') => (ReadsNewReader(g) /\ BuffersAsNew(g))'

C37_PooledValuesExclusiveAndReset ==
    /\ []HeldByOne
    /\ [][\A g \in Scanners : GivenBack(g) /\ ResetAtCheckout(g)]_vars

\* Two scans at once: one on a tokenizer that a cancelled scan gave back
\* with tokens left, one on a reader that will fail.
C37_Witness ==
    \E g, h \in Scanners :
        /\ g # h /\ Scanning(g) /\ Scanning(h)
        /\ scan[g].in.kind = "html" /\ scan[g].pooled
        /\ scan[h].in.kind = "text" /\ scan[h].in.err
        /\ \E x \in outs : x[1].kind = "html" /\ x[2] = NilMatches

====
